---- MODULE Spec2Model ----
(***************************************************************************)
(* A model of ScholarlyTrust's metadata aggregation pipeline               *)
(* (src/src/api_utils.py): the journal and paper aggregators, the          *)
(* two-provider assessment pipeline, the credibility requesters and the    *)
(* LLM response parser.                                                    *)
(*                                                                         *)
(* Python values are tagged records, one field name per Python type, so    *)
(* that values of different types compare unequal instead of failing:      *)
(*   [str |-> <<chars>>]  [int |-> n]  [bool |-> b]  [none |-> TRUE]       *)
(*   [list |-> <<...>>]   [dict |-> function from key strings to values]   *)
(*   [float |-> [num |-> a, den |-> b]]  (the quotient a/b, b > 0)         *)
(* A Python str is a sequence of one-character strings.                    *)
(***************************************************************************)
EXTENDS Integers, Sequences, FiniteSets, TLC

VARIABLES
    pc,      \* position of the request: "ready", then the name of the last step
    world,   \* what the outside answers to the call: files, HTTP responses, LLM, clock
    call,    \* the call made: its name and arguments
    ret,     \* the value the call returned
    http,    \* the HTTP requests issued by the call, in order
    llm,     \* the prompts sent to the LLM by the call, in order
    raised   \* TRUE when an exception escaped the call

vars == <<pc, world, call, ret, http, llm, raised>>

----------------------------------------------------------------------------
(* Bounds of the model *)

MaxIdLen == 2      \* longest identifier / display name, in characters
MaxWorks == 2      \* longest list of works a works request answers with
MaxScore == 11     \* largest score of a synthetic LLM response
MaxFragmentPieces == 2   \* pieces a synthetic rationale fragment is built of
MaxTextPieces == 3       \* pieces an arbitrary LLM text is built of
MaxPaperAge == 2   \* oldest publication year, in years before the first clock year
MaxListLen == 2    \* longest list inside a raw record handed to a sanitizer
FirstClockYear == 2026   \* earliest year the clock reads

----------------------------------------------------------------------------
(* Python values *)

PStr(s) == [str |-> s]
PInt(n) == [int |-> n]
PBool(b) == [bool |-> b]
PNone == [none |-> TRUE]
PList(l) == [list |-> l]
PDict(d) == [dict |-> d]
PFloat(a, b) == [float |-> [num |-> a, den |-> b]]

IsStr(v) == DOMAIN v = {"str"}
IsInt(v) == DOMAIN v = {"int"}
IsList(v) == DOMAIN v = {"list"}
IsDict(v) == DOMAIN v = {"dict"}
IsNone(v) == DOMAIN v = {"none"}

\* dict.get(k, default) on a tagged dict
Get(d, k, default) == IF k \in DOMAIN d.dict THEN d.dict[k] ELSE default

\* bool(v): Python truthiness
Truthy(v) ==
    CASE IsNone(v) -> FALSE
      [] DOMAIN v = {"bool"} -> v.bool
      [] IsInt(v) -> v.int # 0
      [] IsStr(v) -> v.str # <<>>
      [] IsList(v) -> v.list # <<>>
      [] IsDict(v) -> DOMAIN v.dict # {}
      [] OTHER -> TRUE

----------------------------------------------------------------------------
(* Strings *)

LowerChars == <<"a", "b", "c", "d", "e", "f", "g", "h", "i", "j", "k", "l", "m",
                "n", "o", "p", "q", "r", "s", "t", "u", "v", "w", "x", "y", "z">>
UpperChars == <<"A", "B", "C", "D", "E", "F", "G", "H", "I", "J", "K", "L", "M",
                "N", "O", "P", "Q", "R", "S", "T", "U", "V", "W", "X", "Y", "Z">>
Whitespace == {" ", "\n", "\t"}

UpperChar(c) ==
    IF \E i \in DOMAIN LowerChars : LowerChars[i] = c
    THEN UpperChars[CHOOSE i \in DOMAIN LowerChars : LowerChars[i] = c]
    ELSE c
LowerChar(c) ==
    IF \E i \in DOMAIN UpperChars : UpperChars[i] = c
    THEN LowerChars[CHOOSE i \in DOMAIN UpperChars : UpperChars[i] = c]
    ELSE c

\* str.upper(), str.lower()
Upper(s) == [i \in DOMAIN s |-> UpperChar(s[i])]
Lower(s) == [i \in DOMAIN s |-> LowerChar(s[i])]

RECURSIVE LStrip(_)
LStrip(s) == IF s # <<>> /\ Head(s) \in Whitespace THEN LStrip(Tail(s)) ELSE s
RECURSIVE RStrip(_)
RStrip(s) ==
    IF s # <<>> /\ s[Len(s)] \in Whitespace THEN RStrip(SubSeq(s, 1, Len(s) - 1)) ELSE s
\* str.strip()
Strip(s) == RStrip(LStrip(s))

\* all sequences over S of length lo..hi
SeqsOf(S, lo, hi) == UNION {[1..n -> S] : n \in lo..hi}

----------------------------------------------------------------------------
(* Module constants, api_utils.py:25-27 *)

HIJACKED_ISSN == PStr(<<"H", "I", "J", "A", "C", "K", "E", "D", "_", "I", "S", "S", "N">>)
ERROR_STATE == PStr(<<"E", "R", "R", "O", "R", "_", "S", "T", "A", "T", "E">>)
NOT_FOUND == PStr(<<"N", "o", "t", " ", "F", "o", "u", "n", "d">>)

HTTP_OK == 200

JOURNAL_AUTHORS_MAX_WORKS == 100
RETRACTION_SAMPLE_PER_PAGE == 200

EmptyDict == PDict(<<>>)
EmptyList == PList(<<>>)
OPENALEX_URL == <<"h", "t", "t", "p", "s", ":", "/", "/", "o", "p", "e", "n", "a", "l",
                  "e", "x", ".", "o", "r", "g", "/">>
NULL_STRING == PStr(<<"n", "u", "l", "l">>)
UNKNOWN == PStr(<<"U", "n", "k", "n", "o", "w", "n">>)

StartsWith(s, p) == Len(s) >= Len(p) /\ SubSeq(s, 1, Len(p)) = p
\* s.split("/")[-1]
LastSegment(s) ==
    LET slashes == {i \in DOMAIN s : s[i] = "/"}
    IN IF slashes = {} THEN s
       ELSE SubSeq(s, (CHOOSE i \in slashes : \A j \in slashes : j <= i) + 1, Len(s))

----------------------------------------------------------------------------
(* The outside: files and HTTP responses                                   *)
(* A file is [unreadable |-> TRUE] or [lines |-> <<line, ...>>].           *)
(* A response is [exc |-> TRUE] (requests.get raised) or                   *)
(* [status |-> n, json |-> value]; json = [bad |-> TRUE] when              *)
(* response.json() raises.                                                 *)

Unreadable == [unreadable |-> TRUE]
ReqFailed == [exc |-> TRUE]
BadJson == [bad |-> TRUE]

Request(endpoint, by, value, per_page) ==
    [endpoint |-> endpoint, by |-> by, value |-> value, per_page |-> per_page]

----------------------------------------------------------------------------
(* get_journal_authors, api_utils.py:758-794                               *)
(* The result is [raise |-> b, ret |-> value, http |-> requests].          *)

\* the dict built for one authorship entry, lines 779-790
JournalAuthorEntry(author) ==
    LET author_data == Get(author, "author", EmptyDict)
        name == Get(author_data, "display_name", NOT_FOUND)
        orcid0 == Get(author_data, "orcid", NOT_FOUND)
        orcid == IF orcid0 = NULL_STRING \/ orcid0 = PNone THEN NOT_FOUND ELSE orcid0
        institutions == Get(author, "institutions", EmptyList)
        affiliation ==
            IF Truthy(institutions) /\ Truthy(institutions.list[1])
            THEN institutions.list[1].dict["display_name"]
            ELSE NOT_FOUND
    IN PDict([name |-> name, orcid |-> orcid, affiliation |-> affiliation])

\* an authorship entry on which lines 779-785 raise
JournalAuthorEntryRaises(author) ==
    \/ ~IsDict(author)
    \/ ~IsDict(Get(author, "author", EmptyDict))
    \/ LET institutions == Get(author, "institutions", EmptyList)
       IN /\ Truthy(institutions)
          /\ \/ ~IsList(institutions)
             \/ /\ Truthy(institutions.list[1])
                /\ \/ ~IsDict(institutions.list[1])
                   \/ "display_name" \notin DOMAIN institutions.list[1].dict

RECURSIVE FlattenAuthors(_)
\* the nested loops of lines 777-790 over a list of works
FlattenAuthors(works) ==
    IF works = <<>> THEN <<>>
    ELSE LET authorships == Get(Head(works), "authorships", EmptyList).list
         IN [i \in DOMAIN authorships |-> JournalAuthorEntry(authorships[i])]
            \o FlattenAuthors(Tail(works))

WorksRaise(works) ==
    \/ ~IsList(works)
    \/ \E i \in DOMAIN works.list :
          \/ ~IsDict(works.list[i])
          \/ ~IsList(Get(works.list[i], "authorships", EmptyList))
          \/ \E j \in DOMAIN Get(works.list[i], "authorships", EmptyList).list :
                JournalAuthorEntryRaises(Get(works.list[i], "authorships", EmptyList).list[j])

get_journal_authors(source_id, max_works, resp) ==
    IF ~IsStr(source_id)
    THEN [raise |-> TRUE, ret |-> PNone, http |-> <<>>]     \* .startswith on a non-str
    ELSE
    LET sid == IF StartsWith(source_id.str, OPENALEX_URL)
               THEN LastSegment(source_id.str) ELSE source_id.str
        req == Request("works", "source", sid, max_works)
        out(v) == [raise |-> FALSE, ret |-> v, http |-> <<req>>]
    IN  IF resp = ReqFailed THEN out(EmptyList)
        ELSE IF resp.status # HTTP_OK THEN out(EmptyList)
        ELSE IF resp.json = BadJson \/ ~IsDict(resp.json) THEN out(EmptyList)
        ELSE LET works == Get(resp.json, "results", EmptyList)
             IN IF WorksRaise(works) THEN out(EmptyList)
                ELSE out(PList(FlattenAuthors(works.list)))

----------------------------------------------------------------------------
(* get_journal_metadata, api_utils.py:796-888                              *)
(* The result is [ret |-> value, http |-> requests]; ret is HIJACKED_ISSN, *)
(* ERROR_STATE, PNone (no journal) or the journal dict.                    *)

\* the set comprehension of line 805
HijackedIssns(file) ==
    {Strip(file.lines[i]) : i \in {j \in DOMAIN file.lines : Strip(file.lines[j]) # <<>>}}
\* the set comprehension of line 810
HijackedJournals(file) ==
    {Lower(Strip(file.lines[i])) :
        i \in {j \in DOMAIN file.lines : Strip(file.lines[j]) # <<>>}}

\* variant: a denylist file that cannot be read counts as a hit
DenylistHitFailClosed(id, is_issn, deny) ==
    IF is_issn
    THEN deny.issn = Unreadable \/ id \in HijackedIssns(deny.issn)
    ELSE deny.names = Unreadable \/ Lower(id) \in HijackedJournals(deny.names)

\* variant: the name is looked up without case folding
DenylistHitUnfolded(id, is_issn, deny) ==
    IF is_issn
    THEN deny.issn # Unreadable /\ id \in HijackedIssns(deny.issn)
    ELSE deny.names # Unreadable /\ id \in HijackedJournals(deny.names)

\* lines 802-815: TRUE when the denylist check returns HIJACKED_ISSN; an
\* unreadable file raises inside the try and the except clause falls through
DenylistHit(id, is_issn, deny) ==
    IF is_issn
    THEN deny.issn # Unreadable /\ id \in HijackedIssns(deny.issn)
    ELSE deny.names # Unreadable /\ Lower(id) \in HijackedJournals(deny.names)

\* variant: a title that only begins with the name is accepted
TitleMismatchPrefix(title, id, is_issn) ==
    ~is_issn /\ ~StartsWith(Upper(title), Upper(id))

\* line 828: the free-text lookup rejects the first result
TitleMismatch(title, id, is_issn) == ~is_issn /\ ~(Upper(title) = Upper(id))

\* line 853
RetractedCount(works) ==
    Cardinality({i \in DOMAIN works : Truthy(Get(works[i], "is_retracted", PBool(FALSE)))})

\* variant: the journal's works_count is the denominator
RetractionRateOverWorksCount(retracted_papers_count, total_works, works_count) ==
    IF works_count > 0 THEN PFloat(retracted_papers_count, works_count) ELSE PFloat(0, 1)

\* line 854
RetractionRate(retracted_papers_count, total_works, works_count) ==
    IF total_works > 0 THEN PFloat(retracted_papers_count, total_works) ELSE PFloat(0, 1)

\* lines 837-840
FieldsOfResearch(source) ==
    LET topics == Get(source, "topics", EmptyList).list
    IN PList([i \in DOMAIN topics |-> Get(topics[i], "display_name", UNKNOWN)])
FieldsOfResearchRaises(source) ==
    LET topics == Get(source, "topics", EmptyList)
    IN ~IsList(topics) \/ \E i \in DOMAIN topics.list : ~IsDict(topics.list[i])

\* lines 845-854: the two secondary requests and what they yield;
\* [raise, authors, retracted, rate, http]
JournalEnrichment(source, w) ==
    LET source_id == Get(source, "id", NOT_FOUND)
        none == [raise |-> FALSE, authors |-> NOT_FOUND, retracted |-> 0,
                 rate |-> PFloat(0, 1), http |-> <<>>]
    IN  IF source_id = NOT_FOUND THEN none
        ELSE
        LET a == get_journal_authors(source_id, JOURNAL_AUTHORS_MAX_WORKS, w.authors)
            works_req == Request("works", "source", source_id.str, RETRACTION_SAMPLE_PER_PAGE)
            sent == a.http \o <<works_req>>
            fail == [none EXCEPT !.raise = TRUE, !.http = sent]
        IN  IF a.raise THEN [none EXCEPT !.raise = TRUE, !.http = a.http]
            ELSE IF w.works = ReqFailed THEN fail
            ELSE IF w.works.status # HTTP_OK
                 THEN [none EXCEPT !.authors = a.ret, !.http = sent]
            ELSE IF w.works.json = BadJson \/ ~IsDict(w.works.json) THEN fail
            ELSE LET works == Get(w.works.json, "results", EmptyList)
                 IN IF ~IsList(works) \/ \E i \in DOMAIN works.list : ~IsDict(works.list[i])
                    THEN fail
                    ELSE LET total_works == Len(works.list)
                             retracted == RetractedCount(works.list)
                             works_count == Get(source, "works_count", PInt(0))
                         IN [raise |-> FALSE, authors |-> a.ret, retracted |-> retracted,
                             rate |-> RetractionRate(retracted, total_works,
                                         IF IsInt(works_count) THEN works_count.int ELSE 0),
                             http |-> sent]

\* variant: the publisher is the host organization that the source names
PublisherFromHost(source) == Get(source, "host_organization_name", NOT_FOUND)

\* line 830
Publisher(source) == Get(source, "display_name", NOT_FOUND)

\* lines 864-884
JournalRecord(source, title, enrich) ==
    LET summary_stats == Get(source, "summary_stats", EmptyDict)
    IN PDict([
        title |-> title,
        publisher |-> Publisher(source),
        homepage_url |-> Get(source, "homepage_url", PStr(<<"N", "/", "A">>)),
        is_in_doaj |-> Get(source, "is_in_doaj", PBool(FALSE)),
        is_open_access |-> Get(source, "is_oa", PBool(FALSE)),
        authors_who_pulished_in_this_journal_info |-> enrich.authors,
        country_code |-> Get(source, "country_code", NOT_FOUND),
        works_count |-> Get(source, "works_count", PInt(0)),
        cited_by_count |-> Get(source, "cited_by_count", PInt(0)),
        fields_of_research |-> FieldsOfResearch(source),
        is_indexed_in_scopus |-> Get(source, "is_indexed_in_scopus", PBool(FALSE)),
        h_index |-> Get(summary_stats, "h_index", NOT_FOUND),
        i10_index |-> Get(summary_stats, "i10_index", NOT_FOUND),
        two_yr_mean_citedness |-> Get(summary_stats, "2yr_mean_citedness", NOT_FOUND),
        host_organization_name |-> Get(source, "host_organization_name", NOT_FOUND),
        apc_prices |-> Get(source, "apc_prices", NOT_FOUND),
        retracted_papers_count |-> PInt(enrich.retracted),
        retraction_rate |-> enrich.rate,
        counts_by_year |-> Get(source, "counts_by_year", NOT_FOUND)])

\* lines 823-885: what a response to the primary request yields, given that
\* requests.get returned; [ret, http] with http the secondary requests
JournalFromResponse(id, is_issn, w) ==
    LET resp == w.primary
        out(v) == [ret |-> v, http |-> <<>>]
    IN  IF resp.status # HTTP_OK THEN out(PNone)                      \* line 885
        ELSE IF resp.json = BadJson \/ ~IsDict(resp.json) THEN out(ERROR_STATE)
        ELSE IF \/ "meta" \notin DOMAIN resp.json.dict
                \/ ~IsDict(resp.json.dict["meta"])
                \/ "count" \notin DOMAIN resp.json.dict["meta"].dict
                \/ ~IsInt(resp.json.dict["meta"].dict["count"])
             THEN out(ERROR_STATE)
        ELSE IF ~(resp.json.dict["meta"].dict["count"].int > 0) THEN out(PNone)
        ELSE IF \/ "results" \notin DOMAIN resp.json.dict
                \/ ~IsList(resp.json.dict["results"])
                \/ resp.json.dict["results"].list = <<>>
                \/ ~IsDict(resp.json.dict["results"].list[1])
             THEN out(ERROR_STATE)
        ELSE
        LET source == resp.json.dict["results"].list[1]
            title == Get(source, "display_name", NOT_FOUND)
        IN  IF ~is_issn /\ ~IsStr(title) THEN out(ERROR_STATE)        \* .upper() raises
            ELSE IF ~is_issn /\ TitleMismatch(title.str, id, is_issn) THEN out(PNone)
            ELSE IF FieldsOfResearchRaises(source) THEN out(ERROR_STATE)
            ELSE LET enrich == JournalEnrichment(source, w)
                 IN IF enrich.raise \/ ~IsDict(Get(source, "summary_stats", EmptyDict))
                    THEN [ret |-> ERROR_STATE, http |-> enrich.http]
                    ELSE [ret |-> JournalRecord(source, title, enrich),
                          http |-> enrich.http]

\* variant: a lookup that found nothing issues its request once more
AfterRequestRetried(req, r) ==
    [ret |-> r.ret,
     http |-> IF r.ret = PNone /\ r.http = <<>> THEN <<req, req>> ELSE <<req>> \o r.http]

\* the request req was issued, then its response yielded r
AfterRequest(req, r) == [ret |-> r.ret, http |-> <<req>> \o r.http]

get_journal_metadata(id, is_issn, w) ==
    IF DenylistHit(id, is_issn, w.deny)
    THEN [ret |-> HIJACKED_ISSN, http |-> <<>>]
    ELSE LET req == Request("sources", IF is_issn THEN "issn" ELSE "search", id, 0)
         IN IF w.primary = ReqFailed
            THEN [ret |-> ERROR_STATE, http |-> <<req>>]
            ELSE AfterRequest(req, JournalFromResponse(id, is_issn, w))

----------------------------------------------------------------------------
(* parse_llm_paper_confidence_output, api_utils.py:1182-1197               *)
(* The two regular expressions are matched as re.search matches them:     *)
(* at the leftmost position where the whole pattern matches.              *)

Digits == <<"0", "1", "2", "3", "4", "5", "6", "7", "8", "9">>
IsDigit(c) == \E i \in DOMAIN Digits : Digits[i] = c
DigitValue(c) == (CHOOSE i \in DOMAIN Digits : Digits[i] = c) - 1

SCORE_LABEL == <<"C", "o", "n", "f", "i", "d", "e", "n", "c", "e", " ",
                 "S", "c", "o", "r", "e", ":">>
RATIONALE_WORD == <<"R", "a", "t", "i", "o", "n", "a", "l", "e">>
HTML_TAG == <<"(", "H", "T", "M", "L", ")", ":">>

\* the literal lit matches in s at position i
MatchAt(s, i, lit) == i + Len(lit) - 1 <= Len(s) /\ SubSeq(s, i, i + Len(lit) - 1) = lit

\* \s* from position i: the position after the whitespace
SkipWs(s, i) ==
    CHOOSE j \in i..(Len(s) + 1) :
        /\ \A k \in i..(j - 1) : s[k] \in Whitespace
        /\ j = Len(s) + 1 \/ s[j] \notin Whitespace

\* \d+ from position i: the position after the digits
SkipDigits(s, i) ==
    CHOOSE j \in i..(Len(s) + 1) :
        /\ \A k \in i..(j - 1) : IsDigit(s[k])
        /\ j = Len(s) + 1 \/ ~IsDigit(s[j])

RECURSIVE ParseInt(_)
\* int() of a string of decimal digits
ParseInt(ds) ==
    IF ds = <<>> THEN 0
    ELSE 10 * ParseInt(SubSeq(ds, 1, Len(ds) - 1)) + DigitValue(ds[Len(ds)])

Min(S) == CHOOSE x \in S : \A y \in S : x <= y

\* line 1190: the positions where r'Confidence Score:\s*(\d+)' matches
ScoreMatches(s) ==
    {i \in DOMAIN s :
        /\ MatchAt(s, i, SCORE_LABEL)
        /\ LET j == SkipWs(s, i + Len(SCORE_LABEL))
           IN j <= Len(s) /\ IsDigit(s[j])}

\* lines 1190-1191
ParseScore(s) ==
    IF ScoreMatches(s) = {} THEN PNone
    ELSE LET j == SkipWs(s, Min(ScoreMatches(s)) + Len(SCORE_LABEL))
         IN PInt(ParseInt(SubSeq(s, j, SkipDigits(s, j) - 1)))

\* line 1194: the positions where r'Rationale\s*\(HTML\):' matches
RationaleMatches(s) ==
    {i \in DOMAIN s :
        /\ MatchAt(s, i, RATIONALE_WORD)
        /\ MatchAt(s, SkipWs(s, i + Len(RATIONALE_WORD)), HTML_TAG)}

\* variant: '(.*)' without re.DOTALL stops at the end of the line
RationaleGroupToLineEnd(s, j) ==
    SubSeq(s, j, Min({k \in j..(Len(s) + 1) : k = Len(s) + 1 \/ s[k] = "\n"}) - 1)

\* group 1 of line 1194, '(.*)' under re.DOTALL from position j: the rest
RationaleGroup(s, j) == SubSeq(s, j, Len(s))

\* variant: no rationale is extracted when no score was found
ParseRationaleNeedsScore(s) ==
    IF ScoreMatches(s) = {} \/ RationaleMatches(s) = {} THEN <<>>
    ELSE LET i == Min(RationaleMatches(s))
             after == SkipWs(s, i + Len(RATIONALE_WORD)) + Len(HTML_TAG)
         IN Strip(RationaleGroup(s, SkipWs(s, after)))

\* lines 1194-1195
ParseRationale(s) ==
    IF RationaleMatches(s) = {} THEN <<>>
    ELSE LET i == Min(RationaleMatches(s))
             after == SkipWs(s, i + Len(RATIONALE_WORD)) + Len(HTML_TAG)
         IN Strip(RationaleGroup(s, SkipWs(s, after)))

\* the pair returned at line 1197
parse_llm_paper_confidence_output(llm_output) ==
    [score |-> ParseScore(llm_output), rationale |-> PStr(ParseRationale(llm_output))]

----------------------------------------------------------------------------
(* The LLM: a reply is LlmFailed (anthropic.messages.create raised) or     *)
(* [text |-> chars], the text of response.content[0].                      *)

LlmFailed == [exc |-> TRUE]
PTuple(a, b) == [tuple |-> <<a, b>>]
ERROR_PAIR == PTuple(ERROR_STATE, ERROR_STATE)

\* ', '.join(v) raises unless v is an iterable of str
JoinRaises(v) ==
    CASE IsList(v) -> \E i \in DOMAIN v.list : ~IsStr(v.list[i])
      [] IsStr(v) -> FALSE
      [] IsDict(v) -> FALSE
      [] OTHER -> TRUE

\* f"{v:.2%}" raises unless v is a number
PercentRaises(v) == DOMAIN v \notin {{"float"}, {"int"}, {"bool"}}

----------------------------------------------------------------------------
(* journal_credibility_prompt, api_utils.py:1199-1289, and                 *)
(* get_journal_credibility, api_utils.py:1291-1309                         *)

\* the exceptions rendering can raise: lines 1204-1225 and the f-string
JournalPromptRaises(metadata) ==
    \/ ~IsDict(metadata)
    \/ JoinRaises(Get(metadata, "fields_of_research", EmptyList))
    \/ PercentRaises(Get(metadata, "retraction_rate", PFloat(0, 1)))

journal_credibility_prompt(metadata) ==
    [fn |-> "journal_credibility_prompt", metadata |-> metadata]

\* lines 1296-1309 after the prompt is rendered: the value returned
CredibilityFromReply(reply) ==
    IF reply = LlmFailed THEN ERROR_PAIR
    ELSE LET parsed == parse_llm_paper_confidence_output(Strip(reply.text))
         IN PTuple(parsed.score, parsed.rationale)

\* [raise, ret, llm]: the prompt is rendered outside the try block
get_journal_credibility(metadata, reply) ==
    IF JournalPromptRaises(metadata)
    THEN [raise |-> TRUE, ret |-> PNone, llm |-> <<>>]
    ELSE [raise |-> FALSE, ret |-> CredibilityFromReply(reply),
          llm |-> <<journal_credibility_prompt(metadata)>>]

WELL_FORMED_REPLY ==
    SCORE_LABEL \o <<" ", "4", "2", "\n">> \o RATIONALE_WORD \o <<" ">> \o HTML_TAG
    \o <<" ", "<", "p", ">", "o", "k", "<", "/", "p", ">">>
ReplyTexts ==
    { WELL_FORMED_REPLY,
      <<" ">> \o RATIONALE_WORD \o <<" ">> \o HTML_TAG \o <<" ", "o", "k", "\n">>,
      SCORE_LABEL \o <<" ", "0">>,
      SCORE_LABEL \o <<" ", "1", "5", "0">>,
      <<"o", "k">> }
LlmReplies == {LlmFailed} \cup {[text |-> x] : x \in ReplyTexts}

----------------------------------------------------------------------------
(* The worlds of the journal aggregator *)

IdChars == {"a", "A"}
Ids == SeqsOf(IdChars, 1, MaxIdLen)

\* the two denylist files: unreadable, empty, or holding blank lines, padded
\* lines and a last line without newline
DenyWorlds ==
    { [issn |-> Unreadable, names |-> Unreadable],
      [issn |-> [lines |-> <<>>], names |-> [lines |-> <<>>]],
      [issn |-> [lines |-> << <<"\n">>, <<" ", "a", "A", " ", "\n">>, <<"a">> >>],
       names |-> [lines |-> << <<"A", "a", "\n">>, <<" ", "\n">>, <<" ", "A">> >>]] }

SOURCE_ID == PStr(OPENALEX_URL \o <<"S", "1">>)

\* a source record of the provider: display_name, id and works_count may be absent
SourceBase ==
    [ topics |-> PList(<< PDict([display_name |-> PStr(<<"a">>), id |-> PStr(<<"T">>)]),
                          PDict([id |-> PStr(<<"T">>)]) >>),
      summary_stats |-> PDict([h_index |-> PInt(3)]),
      is_in_doaj |-> PBool(TRUE),
      host_organization_name |-> PStr(<<"b">>) ]
WithKey(f, k, v) == [x \in DOMAIN f \cup {k} |-> IF x = k THEN v ELSE f[x]]
WithKeys(f, g) == [x \in DOMAIN f \cup DOMAIN g |-> IF x \in DOMAIN g THEN g[x] ELSE f[x]]
Sources ==
    { PDict(WithKeys(SourceBase, WithKeys(n, WithKeys(i, c)))) :
        n \in {<<>>} \cup {[display_name |-> PStr(d)] : d \in Ids},
        i \in {<<>>, [id |-> SOURCE_ID]},
        c \in {<<>>, [works_count |-> PInt(7)]} }

Envelope(count, results) ==
    PDict([meta |-> PDict([count |-> PInt(count)]), results |-> PList(results)])
Ok(json) == [status |-> HTTP_OK, json |-> json]
Status(n) == [status |-> n, json |-> BadJson]

PrimaryNoSource ==
    { ReqFailed, Status(404), Status(500), Ok(BadJson), Ok(EmptyDict),
      Ok(Envelope(0, <<>>)), Ok(Envelope(1, <<>>)) }

\* a work of the provider: retracted, or without the is_retracted key
WorkKinds ==
    { PDict([is_retracted |-> PBool(TRUE)]),
      PDict([title |-> PStr(<<"w">>)]) }
WorksResponses ==
    {ReqFailed, Status(503)}
    \cup {Ok(PDict([results |-> PList(ws)])) : ws \in SeqsOf(WorkKinds, 0, MaxWorks)}

AuthoredWork ==
    PDict([authorships |-> PList(<<
        PDict([author |-> PDict([display_name |-> PStr(<<"a">>), orcid |-> PNone]),
               institutions |-> PList(<< PDict([display_name |-> PStr(<<"U">>)]) >>)]),
        PDict([author |-> PDict([orcid |-> PStr(<<"o">>)]),
               institutions |-> EmptyList]) >>)])
AuthorsResponses ==
    { ReqFailed, Status(500), Ok(PDict([results |-> EmptyList])),
      Ok(PDict([results |-> PList(<<AuthoredWork>>)])) }

NoSecondary == Status(500)

\* the answers to the two secondary requests: each one varied against a
\* successful answer of the other
SecondaryAnswers ==
    { [authors |-> a, works |-> Ok(PDict([results |-> PList(<<AuthoredWork>>)]))] :
        a \in AuthorsResponses }
    \cup
    { [authors |-> Ok(PDict([results |-> PList(<<AuthoredWork>>)])), works |-> k] :
        k \in WorksResponses }

JournalWorlds ==
    { [kind |-> "journal", deny |-> d, primary |-> p, authors |-> NoSecondary,
       works |-> NoSecondary] : d \in DenyWorlds, p \in PrimaryNoSource }
    \cup
    UNION { { [kind |-> "journal", deny |-> d, primary |-> Ok(Envelope(1, <<s>>)),
                authors |-> x.authors, works |-> x.works] :
                d \in DenyWorlds,
                x \in IF "id" \in DOMAIN s.dict THEN SecondaryAnswers
                      ELSE {[authors |-> NoSecondary, works |-> NoSecondary]} } :
            s \in Sources }

----------------------------------------------------------------------------
(* The journal request: get_journal_metadata, then get_journal_credibility *)

NoCall == [op |-> "none"]

InitWith(worlds) ==
    /\ pc = "ready"
    /\ world \in worlds
    /\ call = NoCall
    /\ ret = PNone
    /\ http = <<>>
    /\ llm = <<>>
    /\ raised = FALSE

CallGetJournalMetadata ==
    /\ pc = "ready"
    /\ world.kind = "journal"
    /\ \E id \in Ids, is_issn \in BOOLEAN :
          LET r == get_journal_metadata(id, is_issn, world)
          IN /\ call' = [op |-> "get_journal_metadata", id |-> id, is_issn |-> is_issn]
             /\ ret' = r.ret
             /\ http' = r.http
    /\ pc' = "get_journal_metadata"
    /\ UNCHANGED <<world, llm, raised>>

CallGetJournalCredibility ==
    /\ pc = "get_journal_metadata"
    /\ IsDict(ret)
    /\ \E reply \in LlmReplies :
          LET r == get_journal_credibility(ret, reply)
          IN /\ call' = [op |-> "get_journal_credibility", metadata |-> ret]
             /\ world' = [kind |-> "llm", reply |-> reply]
             /\ ret' = r.ret
             /\ llm' = r.llm
             /\ raised' = r.raise
    /\ pc' = "get_journal_credibility"
    /\ http' = <<>>

Init == InitWith(JournalWorlds)
Next == CallGetJournalMetadata \/ CallGetJournalCredibility
Spec == Init /\ [][Next]_vars

----------------------------------------------------------------------------
(* The parser on its own: parse_llm_paper_confidence_output applied to     *)
(* synthetic well-formed responses and to arbitrary texts                  *)

RECURSIVE Concat(_)
Concat(ss) == IF ss = <<>> THEN <<>> ELSE Head(ss) \o Concat(Tail(ss))

RECURSIVE ToDigits(_)
\* str(n) for n >= 0
ToDigits(n) == IF n < 10 THEN <<Digits[n + 1]>> ELSE ToDigits(n \div 10) \o <<Digits[(n % 10) + 1]>>

RATIONALE_LABEL == RATIONALE_WORD \o <<" ">> \o HTML_TAG

\* 'Confidence Score: ' + n + newline + 'Rationale (HTML): ' + f
Render(n, f) ==
    SCORE_LABEL \o <<" ">> \o ToDigits(n) \o <<"\n">> \o RATIONALE_LABEL \o <<" ">> \o f

FragmentPieces ==
    { <<"<", "p", ">", "o", "k", "<", "/", "p", ">">>, <<"x", "\n", "y">>, <<" ">>, <<"\n">>,
      <<"7">>, RATIONALE_LABEL, SCORE_LABEL \o <<" ", "9">> }
\* HTML fragments without leading or trailing whitespace
Fragments ==
    { f \in {Concat(ps) : ps \in SeqsOf(FragmentPieces, 0, MaxFragmentPieces)} :
        Strip(f) = f }

TextPieces ==
    { SCORE_LABEL, SubSeq(SCORE_LABEL, 1, Len(SCORE_LABEL) - 1), RATIONALE_WORD, HTML_TAG,
      RATIONALE_LABEL, <<" ">>, <<"\n">>, <<"7">>, <<"x">> }
Texts == {Concat(ps) : ps \in SeqsOf(TextPieces, 0, MaxTextPieces)}

\* a synthetic response carries the score and fragment it was rendered from
ParserWorlds ==
    { [kind |-> "parser", text |-> Render(n, f), synthetic |-> TRUE, n |-> n, f |-> f] :
        n \in 0..MaxScore, f \in Fragments }
    \cup { [kind |-> "parser", text |-> x, synthetic |-> FALSE] : x \in Texts }

CallParse ==
    /\ pc = "ready"
    /\ world.kind = "parser"
    /\ LET parsed == parse_llm_paper_confidence_output(world.text)
       IN ret' = PTuple(parsed.score, parsed.rationale)
    /\ call' = [op |-> "parse_llm_paper_confidence_output", llm_output |-> world.text]
    /\ pc' = "parse_llm_paper_confidence_output"
    /\ UNCHANGED <<world, http, llm, raised>>

InitParser == InitWith(ParserWorlds)
NextParser == CallParse
SpecParser == InitParser /\ [][NextParser]_vars

----------------------------------------------------------------------------
(* pre_process_journal_openalex_data, api_utils.py:81-120                  *)

TOPICS_KEPT == 25
FieldsToRemove == {"meta", "alternate_titles", "abbreviated_title", "topic_share",
                   "x_concepts", "id"}

HasDisplayName(topic) == IsDict(topic) /\ "display_name" \in DOMAIN topic.dict
OnlyDisplayName(topic) == PDict([display_name |-> topic.dict["display_name"]])
FirstN(s, n) == SubSeq(s, 1, IF Len(s) < n THEN Len(s) ELSE n)

RECURSIVE KeptTopics(_)
\* the comprehension of lines 103-107 over the topics already cut to 25
KeptTopics(topics) ==
    IF topics = <<>> THEN <<>>
    ELSE (IF HasDisplayName(Head(topics)) THEN <<OnlyDisplayName(Head(topics))>> ELSE <<>>)
         \o KeptTopics(Tail(topics))

\* lines 97-110
JournalCleanDict(d) ==
    PDict([k \in DOMAIN d.dict \ FieldsToRemove |->
            IF k = "topics" /\ IsList(d.dict[k])
            THEN PList(KeptTopics(FirstN(d.dict[k].list, TOPICS_KEPT)))
            ELSE d.dict[k]])

RECURSIVE JournalCleanEach(_)
\* [clean_dict(item) for item in items if isinstance(item, dict)], lines 114, 116
JournalCleanEach(items) ==
    IF items = <<>> THEN <<>>
    ELSE (IF IsDict(Head(items)) THEN <<JournalCleanDict(Head(items))>> ELSE <<>>)
         \o JournalCleanEach(Tail(items))

\* lines 113-120; [raise, ret]
pre_process_journal_openalex_data(openalex_data) ==
    IF IsDict(openalex_data) /\ "results" \in DOMAIN openalex_data.dict
    THEN LET results == openalex_data.dict["results"]
         IN IF IsList(results)
            THEN [raise |-> FALSE, ret |-> PList(JournalCleanEach(results.list))]
            ELSE IF IsDict(results) \/ IsStr(results)    \* iterates keys or characters
            THEN [raise |-> FALSE, ret |-> EmptyList]
            ELSE [raise |-> TRUE, ret |-> PNone]
    ELSE IF IsList(openalex_data)
    THEN [raise |-> FALSE, ret |-> PList(JournalCleanEach(openalex_data.list))]
    ELSE IF IsDict(openalex_data)
    THEN [raise |-> FALSE, ret |-> JournalCleanDict(openalex_data)]
    ELSE [raise |-> FALSE, ret |-> openalex_data]

----------------------------------------------------------------------------
(* get_journal_metadata_openalex, api_utils.py:44-79; [ret, http]          *)

get_journal_metadata_openalex(id, is_issn, resp) ==
    LET req == Request("sources", IF is_issn THEN "issn" ELSE "search", id, 0)
        out(v) == [ret |-> v, http |-> <<req>>]
    IN  IF resp = ReqFailed THEN out(ERROR_STATE)
        ELSE IF resp.status # HTTP_OK THEN out(NOT_FOUND)
        ELSE IF resp.json = BadJson THEN out(ERROR_STATE)
        ELSE LET cleaned == pre_process_journal_openalex_data(resp.json)
             IN IF cleaned.raise THEN out(ERROR_STATE) ELSE out(cleaned.ret)

----------------------------------------------------------------------------
(* pre_process_journal_crossref_data, api_utils.py:231-289                 *)

AllowedFields ==
    {"indexed", "reference-count", "publisher", "issue", "published-print", "DOI", "type",
     "created", "page", "is-referenced-by-count", "deposited", "score", "issued",
     "references-count", "issn", "published", "publisher-location"}

\* k.lower() on the keys a Crossref item carries
LowerKey(k) ==
    CASE k = "DOI" -> "doi"
      [] k = "ISSN" -> "issn"
      [] k = "URL" -> "url"
      [] OTHER -> k

\* lines 277-287
CrossrefCleanItem(item) ==
    LET kept == {k \in DOMAIN item.dict : LowerKey(k) \in AllowedFields}
        keys == {LowerKey(k) : k \in kept}
    IN PDict([key \in keys \cup (DOMAIN item.dict \cap {"publisher-location"}) |->
                IF key \in keys
                THEN item.dict[CHOOSE k \in kept : LowerKey(k) = key]
                ELSE item.dict[key]])

\* lines 261-268: the items of the response; [raise, items]
CrossrefItems(crossref_data) ==
    IF IsDict(crossref_data) /\ "message" \in DOMAIN crossref_data.dict
    THEN IF ~IsDict(crossref_data.dict["message"])
         THEN [raise |-> TRUE, items |-> EmptyList]
         ELSE [raise |-> FALSE, items |-> Get(crossref_data.dict["message"], "items", EmptyList)]
    ELSE IF IsDict(crossref_data) /\ "items" \in DOMAIN crossref_data.dict
    THEN [raise |-> FALSE, items |-> crossref_data.dict["items"]]
    ELSE IF IsList(crossref_data)
    THEN [raise |-> FALSE, items |-> crossref_data]
    ELSE [raise |-> FALSE, items |-> EmptyList]

\* [raise, ret]
pre_process_journal_crossref_data(crossref_data) ==
    LET got == CrossrefItems(crossref_data)
    IN IF got.raise \/ ~IsList(got.items) \/ \E i \in DOMAIN got.items.list : ~IsDict(got.items.list[i])
       THEN [raise |-> TRUE, ret |-> PNone]
       ELSE [raise |-> FALSE,
             ret |-> PList([i \in DOMAIN got.items.list |-> CrossrefCleanItem(got.items.list[i])])]

----------------------------------------------------------------------------
(* get_journal_metadata_crossref, api_utils.py:213-228; [ret, http]        *)

CROSSREF_ROWS == 1000
ISSN_TYPE == PStr(<<"i", "s", "s", "n">>)

RECURSIVE ReplaceSpaces(_)
\* s.replace(' ', '%20')
ReplaceSpaces(s) ==
    IF s = <<>> THEN <<>>
    ELSE (IF Head(s) = " " THEN <<"%", "2", "0">> ELSE <<Head(s)>>) \o ReplaceSpaces(Tail(s))

\* lines 214-217: the request made for the input type
CrossrefJournalRequest(paper_input, input_type) ==
    IF input_type = ISSN_TYPE
    THEN Request("crossref/v1/works", "filter=issn", paper_input, CROSSREF_ROWS)
    ELSE Request("crossref/works", "query.title", ReplaceSpaces(paper_input), 0)

get_journal_metadata_crossref(paper_input, input_type, resp) ==
    LET out(v) == [ret |-> v, http |-> <<CrossrefJournalRequest(paper_input, input_type)>>]
    IN  IF resp = ReqFailed THEN out(ERROR_STATE)
        ELSE IF resp.status # HTTP_OK THEN out(NOT_FOUND)
        ELSE IF resp.json = BadJson THEN out(ERROR_STATE)
        ELSE LET cleaned == pre_process_journal_crossref_data(resp.json)
             IN IF cleaned.raise THEN out(ERROR_STATE) ELSE out(cleaned.ret)

----------------------------------------------------------------------------
(* get_journal_credibility_prompt, api_utils.py:444-589, and               *)
(* get_journal_credibility_from_llm, api_utils.py:423-442                  *)
(* The clock is the sequence of instants successive datetime.now() calls   *)
(* read.                                                                   *)

\* lines 451-453 and the metadata embedded at lines 582-584
get_journal_credibility_prompt(openalex_metadata, crossref_metadata, clock) ==
    [fn |-> "get_journal_credibility_prompt",
     current_month |-> clock[1].month,
     current_year |-> clock[2].year,
     openalex_metadata |-> openalex_metadata,
     crossref_metadata |-> crossref_metadata]

\* [ret, llm]
get_journal_credibility_from_llm(openalex_metadata, crossref_metadata, clock, reply) ==
    [ret |-> IF reply = LlmFailed THEN ERROR_STATE ELSE PStr(Strip(reply.text)),
     llm |-> <<get_journal_credibility_prompt(openalex_metadata, crossref_metadata, clock)>>]

----------------------------------------------------------------------------
(* get_journal_assessment, api_utils.py:400-421; [ret, http, llm]          *)

\* hasattr(v, "__len__") and len(v) == 0
EmptySized(v) ==
    \/ v = EmptyList
    \/ v = EmptyDict
    \/ v = PStr(<<>>)

\* variant: an empty result of a fetch does not stop the assessment
AssessmentUnavailableIgnoringEmpty(openalex_metadata, crossref_metadata) ==
    \/ openalex_metadata = NOT_FOUND
    \/ crossref_metadata = NOT_FOUND
    \/ openalex_metadata = ERROR_STATE
    \/ crossref_metadata = ERROR_STATE
    \/ openalex_metadata = PNone
    \/ crossref_metadata = PNone

\* lines 406-415
AssessmentUnavailable(openalex_metadata, crossref_metadata) ==
    \/ openalex_metadata = NOT_FOUND
    \/ crossref_metadata = NOT_FOUND
    \/ openalex_metadata = ERROR_STATE
    \/ crossref_metadata = ERROR_STATE
    \/ openalex_metadata = PNone
    \/ crossref_metadata = PNone
    \/ EmptySized(openalex_metadata)
    \/ EmptySized(crossref_metadata)

get_journal_assessment(id, is_issn, w) ==
    LET openalex == get_journal_metadata_openalex(id, is_issn, w.openalex)
        crossref == get_journal_metadata_crossref(id, PBool(is_issn), w.crossref)
        sent == openalex.http \o crossref.http
    IN  IF AssessmentUnavailable(openalex.ret, crossref.ret)
        THEN [ret |-> NOT_FOUND, http |-> sent, llm |-> <<>>]
        ELSE LET a == get_journal_credibility_from_llm(openalex.ret, crossref.ret,
                                                       w.clock, w.reply)
             IN [ret |-> a.ret, http |-> sent, llm |-> a.llm]

----------------------------------------------------------------------------
(* The worlds of the journal assessment *)

OpenAlexAnswers ==
    { ReqFailed, Status(404), Ok(BadJson), Ok(Envelope(0, <<>>)),
      Ok(PDict([error |-> PStr(<<"e">>)])),
      Ok(Envelope(1, <<PDict(WithKeys(SourceBase,
                              [display_name |-> PStr(<<"a">>), id |-> SOURCE_ID]))>>)) }

CrossrefItem ==
    PDict([DOI |-> PStr(<<"1", "0", ".", "1">>), ISSN |-> PList(<<PStr(<<"a">>)>>),
           publisher |-> PStr(<<"b">>), title |-> PList(<<PStr(<<"a">>)>>)])
CrossrefAnswers ==
    { ReqFailed, Status(404), Ok(BadJson),
      Ok(PDict([message |-> PDict([items |-> EmptyList])])),
      Ok(PDict([message |-> PDict([items |-> PList(<<CrossrefItem>>)])])) }

AssessReplies ==
    { LlmFailed, [text |-> <<" ", "<", "p", ">", "o", "k", "<", "/", "p", ">", "\n">>] }

\* two successive readings of the clock: within one month, or across the
\* turn of the year
Clocks ==
    { << [year |-> 2026, month |-> 11], [year |-> 2026, month |-> 11] >>,
      << [year |-> 2026, month |-> 12], [year |-> 2027, month |-> 1] >> }

AssessWorlds ==
    { [kind |-> "assess", deny |-> d, openalex |-> o, crossref |-> c, reply |-> r,
       clock |-> k] :
        d \in DenyWorlds, o \in OpenAlexAnswers, c \in CrossrefAnswers,
        r \in AssessReplies, k \in Clocks }

CallGetJournalAssessment ==
    /\ pc = "ready"
    /\ world.kind = "assess"
    /\ \E id \in Ids, is_issn \in BOOLEAN :
          LET r == get_journal_assessment(id, is_issn, world)
          IN /\ call' = [op |-> "get_journal_assessment", id |-> id, is_issn |-> is_issn]
             /\ ret' = r.ret
             /\ http' = r.http
             /\ llm' = r.llm
    /\ pc' = "get_journal_assessment"
    /\ UNCHANGED <<world, raised>>

\* InitAssess, NextAssess and SpecAssess follow get_research_paper_assessment,
\* the second request of this specification

----------------------------------------------------------------------------
(* get_author_metadata_for_paper, api_utils.py:890-928                     *)

\* the dict built for one authorship entry, lines 906-924
PaperAuthorEntry(author) ==
    LET author_data == Get(author, "author", EmptyDict)
        orcid == Get(author_data, "orcid", PNone)
        institutions == Get(author, "institutions", EmptyList)
    IN PDict([
        name |-> Get(author_data, "display_name", NOT_FOUND),
        has_orcid |-> PBool(orcid # PNone /\ orcid # NULL_STRING),
        affiliation |->
            IF institutions = PNone \/ institutions.list = <<>> THEN NOT_FOUND
            ELSE Get(institutions.list[1], "display_name", NOT_FOUND),
        is_corresponding |-> Get(author, "is_corresponding", PBool(FALSE)),
        author_position |-> Get(author, "author_position", NOT_FOUND)])

\* an authorship entry on which lines 906-916 raise
PaperAuthorEntryRaises(author) ==
    \/ ~IsDict(author)
    \/ ~IsDict(Get(author, "author", EmptyDict))
    \/ LET institutions == Get(author, "institutions", EmptyList)
       IN /\ institutions # PNone
          /\ \/ ~IsList(institutions)
             \/ institutions.list # <<>> /\ ~IsDict(institutions.list[1])

get_author_metadata_for_paper(paper_data) ==
    LET authors == Get(paper_data, "authorships", EmptyList)
    IN  IF authors = PNone THEN NOT_FOUND
        ELSE IF ~IsList(authors) THEN ERROR_STATE
        ELSE IF authors.list = <<>> THEN NOT_FOUND
        ELSE IF \E i \in DOMAIN authors.list : PaperAuthorEntryRaises(authors.list[i])
        THEN ERROR_STATE
        ELSE PList([i \in DOMAIN authors.list |-> PaperAuthorEntry(authors.list[i])])

----------------------------------------------------------------------------
(* get_paper_metadata_v2, api_utils.py:930-1040; [ret, http]               *)

DOI_TYPE == PStr(<<"d", "o", "i">>)
TITLE_TYPE == PStr(<<"t", "i", "t", "l", "e">>)

\* lines 931-934
PaperRequest(paper_input, input_type) ==
    IF input_type = DOI_TYPE
    THEN Request("works", "doi", paper_input, 0)
    ELSE Request("works", "title.search", ReplaceSpaces(paper_input), 0)

\* lines 951-955: the first location with a truthy source, PNone without one
PrimaryLocation(locations_count, locations) ==
    IF locations_count = PInt(0) THEN PNone
    ELSE LET with == {i \in DOMAIN locations.list :
                        Truthy(Get(locations.list[i], "source", PNone))}
         IN IF with = {} THEN PNone ELSE locations.list[Min(with)]
PrimaryLocationRaises(locations_count, locations) ==
    /\ locations_count # PInt(0)
    /\ \/ ~IsList(locations)
       \/ \E i \in DOMAIN locations.list : ~IsDict(locations.list[i])

\* the difference of the years without the floor of 1
YearsSincePublicationUnclamped(current_year, publication_year) ==
    IF IsInt(publication_year) THEN PInt(current_year - publication_year.int)
    ELSE NOT_FOUND
\* lines 962-964
YearsSincePublication(current_year, publication_year) ==
    IF IsInt(publication_year)
    THEN PInt(IF current_year - publication_year.int > 1
              THEN current_year - publication_year.int ELSE 1)
    ELSE NOT_FOUND

\* variant: the source id, too, is looked up as an ISSN
JournalLookupsByIssnOnly(location_data) ==
    LET source == Get(location_data, "source", EmptyDict)
        journal_source_id == IF location_data # PNone THEN Get(source, "id", PNone)
                             ELSE NOT_FOUND
        journal_issn == IF location_data # PNone THEN Get(source, "issn_l", PNone)
                        ELSE NOT_FOUND
    IN  IF ~Truthy(journal_source_id) THEN <<>>
        ELSE << [op |-> "get_journal_metadata",
                 id |-> IF Truthy(journal_issn) THEN journal_issn.str
                        ELSE journal_source_id.str,
                 is_issn |-> TRUE] >>

\* lines 987-999: the nested journal lookup, as the sequence of calls made to
\* get_journal_metadata: none or one
JournalLookups(location_data) ==
    LET source == Get(location_data, "source", EmptyDict)
        journal_source_id == IF location_data # PNone THEN Get(source, "id", PNone)
                             ELSE NOT_FOUND
        journal_issn == IF location_data # PNone THEN Get(source, "issn_l", PNone)
                        ELSE NOT_FOUND
    IN  IF ~Truthy(journal_source_id) THEN <<>>
        ELSE << [op |-> "get_journal_metadata",
                 id |-> IF Truthy(journal_issn) THEN journal_issn.str
                        ELSE journal_source_id.str,
                 is_issn |-> Truthy(journal_issn)] >>

WithCalls(r, calls) == [ret |-> r.ret, http |-> r.http, calls |-> calls]

\* the lookup made, if any, and what it returns; [ret, http, calls]
JournalLookedUp(calls, w) ==
    IF calls = <<>> THEN [ret |-> PNone, http |-> <<>>, calls |-> calls]
    ELSE WithCalls(get_journal_metadata(calls[1].id, calls[1].is_issn, w), calls)

JournalOfLocation(location_data, w) == JournalLookedUp(JournalLookups(location_data), w)

\* lines 1010-1035
PaperRecord(paper, location_data, current_year, journal_metadata) ==
    LET author_metadata == get_author_metadata_for_paper(paper)
        source == Get(location_data, "source", EmptyDict)
        publication_year == Get(paper, "publication_year", NOT_FOUND)
    IN PDict([
        title |-> Get(paper, "title", NOT_FOUND),
        publication_year |-> publication_year,
        cited_by_count |-> Get(paper, "cited_by_count", NOT_FOUND),
        years_since_publication |-> YearsSincePublication(current_year, publication_year),
        total_paper_citation_count |-> Get(paper, "cited_by_count", NOT_FOUND),
        author_metadata |-> author_metadata,
        author_count |-> IF IsList(author_metadata) THEN PInt(Len(author_metadata.list))
                         ELSE NOT_FOUND,
        is_in_doaj |-> NOT_FOUND,
        publisher |-> IF location_data # PNone THEN Get(source, "display_name", NOT_FOUND)
                      ELSE NOT_FOUND,
        open_access |-> IF location_data # PNone THEN Get(location_data, "is_oa", NOT_FOUND)
                        ELSE NOT_FOUND,
        concepts |-> Get(paper, "concepts", NOT_FOUND),
        language |-> Get(paper, "language", NOT_FOUND),
        doi |-> Get(paper, "doi", NOT_FOUND),
        locations_count |-> Get(paper, "locations_count", PInt(0)),
        locations |-> Get(paper, "locations", EmptyList),
        is_retracted |-> Get(paper, "is_retracted", PBool(FALSE)),
        journal_metadata |-> journal_metadata,
        grants |-> Get(paper, "grants", NOT_FOUND),
        referenced_works_count |-> Get(paper, "referenced_works_count", NOT_FOUND),
        related_works |-> Get(paper, "related_works", NOT_FOUND),
        sustainable_development_goals |-> Get(paper, "sustainable_development_goals", NOT_FOUND),
        counts_by_year |-> Get(paper, "counts_by_year", NOT_FOUND),
        publication_date |-> Get(paper, "publication_date", NOT_FOUND),
        created_date |-> Get(paper, "created_date", NOT_FOUND)])

\* lines 1010-1035 with the journal lookup j of lines 993-999; [ret, http]
PaperWithJournal(paper, location_data, current_year, j) ==
    [ret |-> PaperRecord(paper, location_data, current_year, j.ret), http |-> j.http,
     calls |-> j.calls]

\* lines 937-1036: what a response to the works request yields, given that
\* requests.get returned; [ret, http, calls] with http the nested requests and
\* calls the nested calls of get_journal_metadata
PaperFromResponse(w) ==
    LET resp == w.paper
        out(v) == [ret |-> v, http |-> <<>>, calls |-> <<>>]
    IN  IF resp.status # HTTP_OK THEN out(NOT_FOUND)                  \* line 1036
        ELSE IF resp.json = BadJson \/ ~IsDict(resp.json) THEN out(ERROR_STATE)
        ELSE
        LET response_data == Get(resp.json, "results", EmptyList)
        IN  IF response_data = PNone THEN out(NOT_FOUND)
            ELSE IF ~IsList(response_data) THEN out(ERROR_STATE)
            ELSE IF response_data.list = <<>> THEN out(NOT_FOUND)
            ELSE IF ~IsDict(response_data.list[1]) THEN out(ERROR_STATE)
            ELSE
            LET paper == response_data.list[1]
                locations_count == Get(paper, "locations_count", PInt(0))
                locations == Get(paper, "locations", EmptyList)
            IN  IF PrimaryLocationRaises(locations_count, locations) THEN out(ERROR_STATE)
                ELSE
                LET location_data == PrimaryLocation(locations_count, locations)
                IN  IF location_data # PNone /\ ~IsDict(Get(location_data, "source", EmptyDict))
                    THEN out(ERROR_STATE)
                    ELSE PaperWithJournal(paper, location_data, w.clock[1].year,
                                          JournalOfLocation(location_data, w.journal))

\* the works request req was issued, then its response yielded r
AfterPaperRequest(req, r) ==
    [ret |-> r.ret, http |-> <<req>> \o r.http, calls |-> r.calls]

get_paper_metadata_v2(paper_input, input_type, w) ==
    LET req == PaperRequest(paper_input, input_type)
    IN  IF w.paper = ReqFailed
        THEN [ret |-> ERROR_STATE, http |-> <<req>>, calls |-> <<>>]
        ELSE AfterPaperRequest(req, PaperFromResponse(w))

----------------------------------------------------------------------------
(* paper_credibility_prompt, api_utils.py:1043-1158, and                   *)
(* get_paper_credibility, api_utils.py:1160-1180                           *)

IsNumber(v) == DOMAIN v \in {{"float"}, {"int"}, {"bool"}}

\* score > 0.3 on a number
AboveThreshold(v) ==
    CASE IsInt(v) -> v.int * 10 > 3
      [] DOMAIN v = {"float"} -> v.float.num * 10 > 3 * v.float.den
      [] OTHER -> FALSE

\* lines 1054-1058 and 1112-1115: the comprehensions over author_metadata
\* and the joins of names and affiliations
AuthorSummaryRaises(author_metadata) ==
    /\ IsList(author_metadata)
    /\ \E i \in DOMAIN author_metadata.list :
          LET a == author_metadata.list[i]
          IN \/ ~IsDict(a)
             \/ ~IsStr(Get(a, "name", UNKNOWN))
             \/ ~IsStr(Get(a, "affiliation", UNKNOWN))

\* lines 1061-1068 and 1124: .get on the journal value, then {:.2%}
JournalSummaryRaises(journal_metadata) ==
    /\ Truthy(journal_metadata)
    /\ \/ ~IsDict(journal_metadata)
       \/ PercentRaises(Get(journal_metadata, "retraction_rate", PFloat(0, 1)))

\* line 1083
TopConceptsRaises(concepts) ==
    /\ Truthy(concepts)
    /\ \/ ~IsList(concepts)
       \/ \E i \in DOMAIN concepts.list :
             LET c == concepts.list[i]
             IN \/ ~IsDict(c)
                \/ ~IsNumber(Get(c, "score", PInt(0)))
                \/ /\ AboveThreshold(Get(c, "score", PInt(0)))
                   /\ ~IsStr(Get(c, "display_name", PStr(<<>>)))

\* lines 1088 and 1091: ", ".join(x.get(key, 'Unknown') for x in v) if v
NamedSummaryRaises(v, key) ==
    /\ Truthy(v)
    /\ \/ ~IsList(v)
       \/ \E i \in DOMAIN v.list :
             \/ ~IsDict(v.list[i])
             \/ ~IsStr(Get(v.list[i], key, UNKNOWN))

PaperPromptRaises(metadata) ==
    \/ ~IsDict(metadata)
    \/ AuthorSummaryRaises(Get(metadata, "author_metadata", EmptyList))
    \/ JournalSummaryRaises(Get(metadata, "journal_metadata", EmptyDict))
    \/ TopConceptsRaises(Get(metadata, "concepts", EmptyList))
    \/ NamedSummaryRaises(Get(metadata, "sustainable_development_goals", EmptyList),
                          "display_name")
    \/ NamedSummaryRaises(Get(metadata, "grants", EmptyList), "funder_display_name")

paper_credibility_prompt(metadata, clock) ==
    [fn |-> "paper_credibility_prompt", metadata |-> metadata,
     current_year |-> clock[1].year]

\* [raise, ret, llm]: the prompt is rendered outside the try block
get_paper_credibility(metadata, clock, reply) ==
    IF PaperPromptRaises(metadata)
    THEN [raise |-> TRUE, ret |-> PNone, llm |-> <<>>]
    ELSE [raise |-> FALSE, ret |-> CredibilityFromReply(reply),
          llm |-> <<paper_credibility_prompt(metadata, clock)>>]

----------------------------------------------------------------------------
(* The worlds of the paper aggregator *)

PaperInputs == SeqsOf({"a", " "}, 1, MaxIdLen)
InputTypes == {DOI_TYPE, TITLE_TYPE}

PaperClocks ==
    { << [year |-> FirstClockYear, month |-> 11] >>, << [year |-> FirstClockYear + 1, month |-> 1] >> }
PublicationYears ==
    {PNone, PStr(<<"2", "0", "2", "6">>)}
    \cup {PInt(y) : y \in (FirstClockYear - MaxPaperAge)..(FirstClockYear + 2)}

\* the source of a location: an ISSN-L on or off the denylist, or none; an id
\* that is the provider's URL, or a bare name, or none
SOURCE_NAME == PStr(<<"a", "A">>)
PaperSources ==
    { PDict(WithKeys(i, WithKeys(l, [display_name |-> PStr(<<"J">>),
                                      is_in_doaj |-> PBool(TRUE)]))) :
        i \in {<<>>, [id |-> SOURCE_ID], [id |-> SOURCE_NAME], [id |-> PStr(<<"A", "a">>)]},
        l \in {<<>>, [issn_l |-> PStr(<<"a", "A">>)], [issn_l |-> PStr(<<"A", "A">>)],
               [issn_l |-> PNone]} }
Location(source) == PDict([is_oa |-> PBool(TRUE), source |-> source])
BareLocation == PDict([is_oa |-> PBool(FALSE), source |-> PNone])

Authorship(name) ==
    PDict([author |-> PDict([display_name |-> name, orcid |-> PStr(<<"o">>)]),
           institutions |-> PList(<< PDict([display_name |-> PStr(<<"U">>)]) >>),
           author_position |-> PStr(<<"f">>)])
Concept(score) == PDict([display_name |-> PStr(<<"c">>), score |-> score])

PaperBase ==
    [ title |-> PStr(<<"t">>),
      publication_year |-> PInt(FirstClockYear - 1),
      cited_by_count |-> PInt(5),
      authorships |-> PList(<<Authorship(PStr(<<"n">>))>>),
      locations_count |-> PInt(2),
      locations |-> PList(<<BareLocation,
                            Location(PDict([id |-> SOURCE_ID,
                                            issn_l |-> PStr(<<"A", "A">>),
                                            display_name |-> PStr(<<"J">>)]))>>),
      concepts |-> PList(<<Concept(PFloat(1, 2)), Concept(PFloat(1, 10))>>),
      grants |-> PList(<<PDict([funder_display_name |-> PStr(<<"g">>)])>>),
      sustainable_development_goals |-> PList(<<PDict([display_name |-> PStr(<<"s">>)])>>),
      related_works |-> PList(<<PStr(<<"w">>)>>) ]
Without(f, k) == [x \in DOMAIN f \ {k} |-> f[x]]

PapersByYear ==
    {Without(PaperBase, "publication_year")}
    \cup {WithKey(PaperBase, "publication_year", y) : y \in PublicationYears}
PapersByAuthors ==
    {Without(PaperBase, "authorships")}
    \cup { WithKey(PaperBase, "authorships", a) :
            a \in { PNone, EmptyList,
                    PList(<<Authorship(PStr(<<"n">>)), Authorship(PNone)>>),
                    PList(<<PDict([author |-> PNone])>>) } }
PapersByLocation ==
    { Without(Without(PaperBase, "locations"), "locations_count"),
      WithKey(PaperBase, "locations_count", PInt(0)),
      WithKey(PaperBase, "locations", PNone),
      WithKey(PaperBase, "locations", PList(<<BareLocation>>)) }
    \cup { WithKey(PaperBase, "locations", PList(<<BareLocation, Location(s)>>)) :
            s \in PaperSources }
PapersByLists ==
    { Without(PaperBase, "concepts"),
      Without(PaperBase, "grants"),
      Without(PaperBase, "sustainable_development_goals"),
      WithKey(PaperBase, "concepts", PList(<<Concept(PNone)>>)),
      WithKeys(PaperBase, [concepts |-> EmptyList, grants |-> EmptyList,
                           sustainable_development_goals |-> PNone]) }

PaperAnswers ==
    { Ok(PDict([results |-> PList(<<PDict(p)>>)])) :
        p \in PapersByAuthors \cup PapersByLocation \cup PapersByLists }
DatedPaperAnswers == { Ok(PDict([results |-> PList(<<PDict(p)>>)])) : p \in PapersByYear }
PaperNoAnswer ==
    { ReqFailed, Status(404), Status(500), Ok(BadJson), Ok(EmptyDict),
      Ok(PDict([results |-> PNone])), Ok(PDict([results |-> EmptyList])) }

\* the journal worlds behind a paper: the lookup fails, finds nothing, or
\* finds a source that has or lacks an id
PaperJournalAnswers ==
    { ReqFailed, Status(404), Ok(Envelope(0, <<>>)),
      Ok(Envelope(1, <<PDict(WithKeys(SourceBase, [display_name |-> SOURCE_NAME]))>>)),
      Ok(Envelope(1, <<PDict(WithKeys(SourceBase, [display_name |-> SOURCE_NAME,
                                                   id |-> SOURCE_ID,
                                                   works_count |-> PInt(7)]))>>)) }
PaperJournalWorlds ==
    { [kind |-> "journal", deny |-> d, primary |-> p,
       authors |-> Ok(PDict([results |-> PList(<<AuthoredWork>>)])),
       works |-> Ok(PDict([results |-> PList(<<PDict([is_retracted |-> PBool(TRUE)]),
                                               PDict([title |-> PStr(<<"w">>)])>>)]))] :
        d \in DenyWorlds, p \in PaperJournalAnswers }

PaperWorlds ==
    { [kind |-> "paper", paper |-> p, journal |-> j, clock |-> k] :
        p \in PaperNoAnswer \cup PaperAnswers, j \in PaperJournalWorlds,
        k \in {<< [year |-> FirstClockYear, month |-> 11] >>} }
    \cup
    { [kind |-> "paper", paper |-> p, journal |-> j, clock |-> k] :
        p \in DatedPaperAnswers,
        j \in {w \in PaperJournalWorlds : w.primary = Status(404) /\ w.deny.issn = Unreadable},
        k \in PaperClocks }

----------------------------------------------------------------------------
(* The paper request: get_paper_metadata_v2, then get_paper_credibility *)

CallGetPaperMetadata ==
    /\ pc = "ready"
    /\ world.kind = "paper"
    /\ \E paper_input \in PaperInputs, input_type \in InputTypes :
          \E r \in {get_paper_metadata_v2(paper_input, input_type, world)} :
             /\ call' = [op |-> "get_paper_metadata_v2", paper_input |-> paper_input,
                         input_type |-> input_type, calls |-> r.calls]
             /\ ret' = r.ret
             /\ http' = r.http
    /\ pc' = "get_paper_metadata_v2"
    /\ UNCHANGED <<world, llm, raised>>

CallGetPaperCredibility ==
    /\ pc = "get_paper_metadata_v2"
    /\ IsDict(ret)
    /\ \E reply \in LlmReplies, clock \in PaperClocks :
          LET r == get_paper_credibility(ret, clock, reply)
          IN /\ call' = [op |-> "get_paper_credibility", metadata |-> ret]
             /\ world' = [kind |-> "llm", reply |-> reply, clock |-> clock]
             /\ ret' = r.ret
             /\ llm' = r.llm
             /\ raised' = r.raise
    /\ pc' = "get_paper_credibility"
    /\ http' = <<>>

InitPaper == InitWith(PaperWorlds)
NextPaper == CallGetPaperMetadata \/ CallGetPaperCredibility
SpecPaper == InitPaper /\ [][NextPaper]_vars

----------------------------------------------------------------------------
(* Claims about the journal aggregator and its credibility requester,     *)
(* checked under Spec                                                      *)

Contains(s, lit) == \E i \in DOMAIN s : MatchAt(s, i, lit)

\* the identifier is listed in the denylist file of the chosen mode: some
\* non-blank line, stripped, is the ISSN, or is the name up to letter case
Listed(id, is_issn, deny) ==
    LET file == IF is_issn THEN deny.issn ELSE deny.names
    IN /\ file # Unreadable
       /\ \E i \in DOMAIN file.lines :
             /\ Strip(file.lines[i]) # <<>>
             /\ IF is_issn THEN Strip(file.lines[i]) = id
                ELSE Lower(Strip(file.lines[i])) = Lower(id)

JournalCallDone == pc = "get_journal_metadata"

\* the primary request was answered, with an HTTP status
PrimaryAnswered == world.primary # ReqFailed
\* the first result of a successful, non-empty primary answer
HasFirstResult ==
    /\ PrimaryAnswered
    /\ world.primary.status = HTTP_OK
    /\ world.primary.json # BadJson
    /\ "results" \in DOMAIN world.primary.json.dict
    /\ "meta" \in DOMAIN world.primary.json.dict
    /\ world.primary.json.dict["meta"].dict["count"].int > 0
    /\ world.primary.json.dict["results"].list # <<>>
FirstResult == world.primary.json.dict["results"].list[1]

\* C1: for an identifier listed in the denylist file of the chosen mode,
\* get_journal_metadata returns HIJACKED_ISSN and issues no HTTP request,
\* whatever the provider would have answered.
C1_HijackedWithoutRequest ==
    (JournalCallDone /\ Listed(call.id, call.is_issn, world.deny))
        => (ret = HIJACKED_ISSN /\ http = <<>>)

\* a listed name that differs in letter case from the line listing it is
\* looked up while the provider would have answered with a journal
C1_Witness ==
    /\ JournalCallDone
    /\ ~call.is_issn
    /\ Listed(call.id, FALSE, world.deny)
    /\ \A i \in DOMAIN world.deny.names.lines : Strip(world.deny.names.lines[i]) # call.id
    /\ HasFirstResult
    /\ ret = HIJACKED_ISSN
    /\ http = <<>>

\* C3: a free-text lookup of a name not on the denylist whose first result
\* carries a display title that is not the name up to letter case returns
\* the not-found outcome (None), never a journal record.
C3_NameMismatchNotFound ==
    ( /\ JournalCallDone
      /\ ~call.is_issn
      /\ ~Listed(call.id, FALSE, world.deny)
      /\ HasFirstResult
      /\ "display_name" \in DOMAIN FirstResult.dict
      /\ Lower(FirstResult.dict["display_name"].str) # Lower(call.id) )
        => ret = PNone

\* the first result's title extends the name looked up, and carries a source id
C3_Witness ==
    /\ JournalCallDone
    /\ ~call.is_issn
    /\ ~Listed(call.id, FALSE, world.deny)
    /\ HasFirstResult
    /\ "display_name" \in DOMAIN FirstResult.dict
    /\ "id" \in DOMAIN FirstResult.dict
    /\ Len(FirstResult.dict["display_name"].str) > Len(call.id)
    /\ StartsWith(Lower(FirstResult.dict["display_name"].str), Lower(call.id))
    /\ ret = PNone

\* C4 (as claimed): when the primary request is answered with a non-2xx
\* status, the call returns ERROR_STATE.
C4_NonSuccessStatusIsError ==
    ( /\ JournalCallDone
      /\ ~Listed(call.id, call.is_issn, world.deny)
      /\ PrimaryAnswered
      /\ world.primary.status \notin 200..299 )
        => ret = ERROR_STATE

\* C5 (as claimed): when the LLM's text does not contain 'Confidence Score:',
\* get_journal_credibility returns the Error pair.
C5_MissingScoreIsError ==
    ( /\ pc = "get_journal_credibility"
      /\ ~raised
      /\ world.reply # LlmFailed
      /\ ~Contains(world.reply.text, SCORE_LABEL) )
        => ret = ERROR_PAIR

\* the works sample fetched for the retraction statistics; empty when the
\* result has no source id or the works request was not answered with 200
FetchedSample ==
    IF /\ "id" \in DOMAIN FirstResult.dict
       /\ world.works # ReqFailed
       /\ world.works.status = HTTP_OK
    THEN world.works.json.dict["results"].list
    ELSE <<>>

\* C9: in every journal record returned, retraction_rate is
\* retracted_papers_count divided by the size of the fetched sample when the
\* sample is non-empty and 0.0 otherwise; so it lies in [0, 1] and is never
\* a quotient by zero or by works_count.
C9_RetractionRate ==
    (JournalCallDone /\ IsDict(ret)) =>
        LET rate == ret.dict["retraction_rate"].float
            count == ret.dict["retracted_papers_count"].int
        IN /\ rate.den > 0
           /\ 0 <= rate.num /\ rate.num <= rate.den
           /\ IF FetchedSample # <<>>
              THEN rate.num * Len(FetchedSample) = count * rate.den
              ELSE rate.num = 0

\* a record whose sample holds a retracted work and whose works_count is
\* not the sample's size
C9_Witness ==
    /\ JournalCallDone
    /\ IsDict(ret)
    /\ Len(FetchedSample) = MaxWorks
    /\ ret.dict["retracted_papers_count"].int = 1
    /\ ret.dict["works_count"] = PInt(7)
    /\ ret.dict["retraction_rate"] = PFloat(1, MaxWorks)

----------------------------------------------------------------------------
(* Claims about the parser, checked under SpecParser *)

ParseDone == pc = "parse_llm_paper_confidence_output"
ParsedScore == ret.tuple[1]
ParsedRationale == ret.tuple[2]

HasRationaleLabel(s) ==
    \E i \in DOMAIN s, k \in 0..Len(s) :
        /\ MatchAt(s, i, RATIONALE_WORD)
        /\ \A j \in 1..k : i + Len(RATIONALE_WORD) + j - 1 <= Len(s)
                           /\ s[i + Len(RATIONALE_WORD) + j - 1] \in Whitespace
        /\ MatchAt(s, i + Len(RATIONALE_WORD) + k, HTML_TAG)

\* some character after position i is not whitespace
ContentAfter(s, i) == \E j \in DOMAIN s : j >= i /\ s[j] \notin Whitespace

\* C8 (as claimed): the score is null when 'Confidence Score:' is absent and
\* the rationale is empty when the literal 'Rationale (HTML):' is absent.
C8_LiteralLabels ==
    ParseDone =>
        /\ ~raised
        /\ ~Contains(world.text, SCORE_LABEL) => ParsedScore = PNone
        /\ ~Contains(world.text, RATIONALE_LABEL) => ParsedRationale = PStr(<<>>)

\* C8 (amended): the parser returns without raising; the score is null when
\* 'Confidence Score:' is absent; the rationale is empty when no label
\* 'Rationale', optional whitespace, '(HTML):' is present; and neither result
\* depends on the other label: a rationale label followed by text yields a
\* rationale without a score label, a score label followed by digits yields
\* a score without a rationale label.
C8_SoftFailure ==
    ParseDone =>
        /\ ~raised
        /\ ~Contains(world.text, SCORE_LABEL) => ParsedScore = PNone
        /\ ~HasRationaleLabel(world.text) => ParsedRationale = PStr(<<>>)
        /\ (\E i \in DOMAIN world.text :
               /\ MatchAt(world.text, i, RATIONALE_LABEL)
               /\ ContentAfter(world.text, i + Len(RATIONALE_LABEL)))
             => ParsedRationale # PStr(<<>>)
        /\ (\E i \in DOMAIN world.text :
               /\ MatchAt(world.text, i, SCORE_LABEL \o <<"7">>))
             => ParsedScore # PNone

\* a text without the score label whose rationale is kept
C8_Witness ==
    /\ ParseDone
    /\ ~world.synthetic
    /\ ~Contains(world.text, SCORE_LABEL)
    /\ ParsedScore = PNone
    /\ ParsedRationale = PStr(<<"x">>)

----------------------------------------------------------------------------
(* Claims about the two-provider assessment, checked under SpecAssess *)

\* C2 (as claimed): for an identifier on the hijacked denylist,
\* get_journal_assessment ends with the Hijacked verdict and sends no prompt
\* to the LLM.
C2_HijackedNeverAssessed ==
    (pc = "get_journal_assessment" /\ Listed(call.id, call.is_issn, world.deny))
        => (ret = HIJACKED_ISSN /\ llm = <<>>)

----------------------------------------------------------------------------
(* Claims about the paper aggregator and get_paper_credibility, checked    *)
(* under SpecPaper                                                         *)

PaperCallDone == pc = "get_paper_metadata_v2"
PaperFound == PaperCallDone /\ IsDict(ret)
\* the record of the provider that the call worked on
AnsweredPaper == world.paper.json.dict["results"].list[1]
PublicationYearOf(paper) ==
    IF "publication_year" \in DOMAIN paper.dict THEN paper.dict["publication_year"]
    ELSE NOT_FOUND

\* C6: for every Found record the credibility call returns a pair, either
\* (score, rationale) or (Error, Error); no exception escapes it, the
\* rendering of the prompt from a record with sentinel fields included.
C6_NoExceptionEscapes ==
    pc \in {"get_paper_credibility", "get_journal_credibility"}
        => (~raised /\ DOMAIN ret = {"tuple"})

\* C10: years_since_publication is max(1, current_year - publication_year)
\* when the publication year is an integer, so never below 1, and the
\* not-found sentinel otherwise.
C10_YearsSincePublication ==
    PaperFound =>
        LET py == PublicationYearOf(AnsweredPaper)
            cy == world.clock[1].year
            years == ret.dict["years_since_publication"]
        IN IF IsInt(py)
           THEN /\ IsInt(years)
                /\ years.int >= 1
                /\ years.int >= cy - py.int
                /\ years.int \in {1, cy - py.int}
           ELSE years = NOT_FOUND
\* a paper dated in the current year or later gets 1
C10_Witness ==
    /\ PaperFound
    /\ IsInt(PublicationYearOf(AnsweredPaper))
    /\ PublicationYearOf(AnsweredPaper).int >= world.clock[1].year
    /\ ret.dict["years_since_publication"] = PInt(1)

----------------------------------------------------------------------------
(* pre_processed_research_paper_openalex_metadata, api_utils.py:143-209    *)

KeysToRemove == {"primary_location", "mesh", "best_oa_location", "referenced_works",
                 "related_works", "abstract_inverted_index",
                 "abstract_inverted_index_v3", "cited_by_api_url"}
\* the keys of the modelled records on which k.endswith('_id') holds
KeysEndingInId == {"source_id", "funder_id"}

\* 'https://openalex.org/' in v, for a str v
IsOpenAlexUrl(v) == IsStr(v) /\ Contains(v.str, OPENALEX_URL)
\* line 170
AllOpenAlexUrls(v) == IsList(v) /\ \A i \in DOMAIN v.list : IsOpenAlexUrl(v.list[i])

RECURSIVE CleanedConcepts(_)
\* lines 174-177
CleanedConcepts(concepts) ==
    IF concepts = <<>> THEN <<>>
    ELSE (IF HasDisplayName(Head(concepts)) THEN <<OnlyDisplayName(Head(concepts))>>
          ELSE <<>>)
         \o CleanedConcepts(Tail(concepts))

RECURSIVE PaperCleanDict(_)
RECURSIVE PaperCleanList(_)
RECURSIVE PaperCleanValue(_, _)

\* lines 172-200: whether key k with value v is added to the cleaned dict,
\* and with which value
PaperCleanValue(k, v) ==
    IF k = "concepts" /\ IsList(v)
    THEN IF CleanedConcepts(v.list) # <<>>
         THEN [kept |-> TRUE, value |-> PList(CleanedConcepts(v.list))]
         ELSE [kept |-> FALSE, value |-> PNone]
    ELSE IF IsDict(v)
    THEN [kept |-> Truthy(PaperCleanDict(v)), value |-> PaperCleanDict(v)]
    ELSE IF IsList(v)
    THEN [kept |-> PaperCleanList(v.list) # <<>>, value |-> PList(PaperCleanList(v.list))]
    ELSE [kept |-> TRUE, value |-> v]

\* variant: strings holding the provider's URL stay in the list
PaperCleanListKeepingUrls(items) ==
    IF items = <<>> THEN <<>>
    ELSE (IF IsDict(Head(items))
          THEN (IF Truthy(PaperCleanDict(Head(items)))
                THEN <<PaperCleanDict(Head(items))>> ELSE <<>>)
          ELSE <<Head(items)>>)
         \o PaperCleanList(Tail(items))
\* lines 187-196
PaperCleanList(items) ==
    IF items = <<>> THEN <<>>
    ELSE (IF IsDict(Head(items))
          THEN (IF Truthy(PaperCleanDict(Head(items)))
                THEN <<PaperCleanDict(Head(items))>> ELSE <<>>)
          ELSE IF IsOpenAlexUrl(Head(items)) THEN <<>>
          ELSE <<Head(items)>>)
         \o PaperCleanList(Tail(items))

\* clean_dict, lines 154-201
PaperCleanDict(d) ==
    LET considered == {k \in DOMAIN d.dict :
                          /\ k \notin KeysToRemove
                          /\ k # "id" /\ k \notin KeysEndingInId
                          /\ ~IsOpenAlexUrl(d.dict[k])
                          /\ ~AllOpenAlexUrls(d.dict[k])}
        kept == {k \in considered : PaperCleanValue(k, d.dict[k]).kept}
    IN PDict([k \in kept |-> PaperCleanValue(k, d.dict[k]).value])

\* lines 204-209; [raise, ret]
pre_processed_research_paper_openalex_metadata(openalex_data) ==
    IF IsList(openalex_data)
    THEN IF \E i \in DOMAIN openalex_data.list : ~IsDict(openalex_data.list[i])
         THEN [raise |-> TRUE, ret |-> PNone]              \* .items() on a non-dict
         ELSE [raise |-> FALSE,
               ret |-> PList([i \in DOMAIN openalex_data.list |->
                                PaperCleanDict(openalex_data.list[i])])]
    ELSE IF IsDict(openalex_data)
    THEN [raise |-> FALSE, ret |-> PaperCleanDict(openalex_data)]
    ELSE [raise |-> FALSE, ret |-> openalex_data]

----------------------------------------------------------------------------
(* The raw inputs of the two sanitizers *)

URL_STRING == PStr(OPENALEX_URL \o <<"W", "1">>)
PLAIN_STRING == PStr(<<"x">>)

\* topics entries: complete, without display_name, not a dict
TopicItems ==
    { PDict([display_name |-> PStr(<<"t">>), id |-> URL_STRING]),
      PDict([id |-> URL_STRING]),
      PLAIN_STRING }
\* a list longer than the cut, whose entry at position bad lacks display_name
LongTopics(bad) ==
    [i \in 1..(TOPICS_KEPT + 1) |->
        IF i = bad THEN PDict([id |-> URL_STRING])
        ELSE PDict([display_name |-> PStr(<<"t">>), id |-> URL_STRING])]
TopicLists ==
    SeqsOf(TopicItems, 0, MaxListLen + 1)
    \cup {LongTopics(0), LongTopics(1), LongTopics(TOPICS_KEPT + 1)}
RawSources ==
    { PDict([display_name |-> PStr(<<"a">>), id |-> URL_STRING, topics |-> PList(ts)]) :
        ts \in TopicLists }
    \cup { PDict([display_name |-> PStr(<<"a">>), topics |-> PLAIN_STRING]),
           PDict([meta |-> PDict([count |-> PInt(1)])]),
           EmptyDict }

\* the values a work record holds under a key
NestedItems ==
    { PLAIN_STRING, URL_STRING, PInt(1), PNone,
      PDict([id |-> PLAIN_STRING]),
      PDict([display_name |-> PStr(<<"c">>), score |-> PInt(1)]),
      PDict([display_name |-> URL_STRING, level |-> PInt(0)]),
      PDict([name |-> PLAIN_STRING, ids |-> PList(<<URL_STRING>>)]),
      PList(<<URL_STRING>>) }
NestedValues ==
    NestedItems \cup {PList(l) : l \in SeqsOf(NestedItems, 0, MaxListLen)}
WorkKeys == {"concepts", "host", "source_id", "related_works"}
RawWorks ==
    { PDict(WithKey([title |-> PStr(<<"t">>)], k, v)) : k \in WorkKeys, v \in NestedValues }

\* a single record, a list of records, a results envelope, or another value
RawShapes(records) ==
    records
    \cup {PList(<<r>>) : r \in records}
    \cup {PList(<<r, PLAIN_STRING>>) : r \in records}
    \cup {PDict([results |-> PList(<<r>>), meta |-> PDict([count |-> PInt(1)])]) :
            r \in records}
    \cup { PDict([results |-> PNone]), PDict([results |-> PLAIN_STRING]),
           PDict([results |-> EmptyDict]), EmptyList, PLAIN_STRING, PNone }

SanitizerWorlds ==
    {[kind |-> "sanitize", of |-> "journal", raw |-> r] : r \in RawShapes(RawSources)}
    \cup {[kind |-> "sanitize", of |-> "paper", raw |-> r] : r \in RawShapes(RawWorks)}

----------------------------------------------------------------------------
(* A sanitizer applied to a raw input, then to its own result *)

CallSanitizeJournal ==
    /\ pc = "ready"
    /\ world.kind = "sanitize" /\ world.of = "journal"
    /\ \E r \in {pre_process_journal_openalex_data(world.raw)} :
          ret' = r.ret /\ raised' = r.raise
    /\ call' = [op |-> "pre_process_journal_openalex_data", openalex_data |-> world.raw]
    /\ pc' = "sanitized"
    /\ UNCHANGED <<world, http, llm>>

CallSanitizePaper ==
    /\ pc = "ready"
    /\ world.kind = "sanitize" /\ world.of = "paper"
    /\ \E r \in {pre_processed_research_paper_openalex_metadata(world.raw)} :
          ret' = r.ret /\ raised' = r.raise
    /\ call' = [op |-> "pre_processed_research_paper_openalex_metadata",
                openalex_data |-> world.raw]
    /\ pc' = "sanitized"
    /\ UNCHANGED <<world, http, llm>>

CallSanitizeJournalAgain ==
    /\ pc = "sanitized" /\ ~raised
    /\ world.of = "journal"
    /\ \E r \in {pre_process_journal_openalex_data(ret)} :
          ret' = r.ret /\ raised' = r.raise
    /\ call' = [op |-> "pre_process_journal_openalex_data", openalex_data |-> ret]
    /\ pc' = "sanitized again"
    /\ UNCHANGED <<world, http, llm>>

CallSanitizePaperAgain ==
    /\ pc = "sanitized" /\ ~raised
    /\ world.of = "paper"
    /\ \E r \in {pre_processed_research_paper_openalex_metadata(ret)} :
          ret' = r.ret /\ raised' = r.raise
    /\ call' = [op |-> "pre_processed_research_paper_openalex_metadata",
                openalex_data |-> ret]
    /\ pc' = "sanitized again"
    /\ UNCHANGED <<world, http, llm>>

InitSanitize == InitWith(SanitizerWorlds)
NextSanitize ==
    \/ CallSanitizeJournal
    \/ CallSanitizePaper
    \/ CallSanitizeJournalAgain
    \/ CallSanitizePaperAgain
SpecSanitize == InitSanitize /\ [][NextSanitize]_vars

----------------------------------------------------------------------------
(* Claims about the sanitizers, checked under SpecSanitize *)

\* C11: both sanitizers are idempotent: applied to its own result, a
\* sanitizer returns that result unchanged, whether the raw input was a
\* results envelope, a list of records or a single record.
C11_Idempotent ==
    pc = "sanitized again" => (~raised /\ ret = call.openalex_data)

\* a record that the first application changed at depth, and the second
\* application left alone
C11_Witness ==
    /\ pc = "sanitized again"
    /\ world.of = "paper"
    /\ IsDict(world.raw)
    /\ "host" \in DOMAIN world.raw.dict
    /\ IsList(world.raw.dict["host"])
    /\ "host" \in DOMAIN ret.dict
    /\ ret.dict["host"] # world.raw.dict["host"]
    /\ ret = call.openalex_data

\* the raw input is a single source record with a topics list, and the
\* journal sanitizer has been applied to it once
SanitizedTopicsRecord ==
    /\ pc = "sanitized"
    /\ world.of = "journal"
    /\ IsDict(world.raw)
    /\ "results" \notin DOMAIN world.raw.dict
    /\ "topics" \in DOMAIN world.raw.dict
    /\ IsList(world.raw.dict["topics"])

\* C12: a record whose topics value is a list of length n is sanitized to a
\* record whose topics list has length min(n, 25), every entry a dict with
\* the single key display_name, also when input entries lack display_name or
\* are not dicts.
C12_TopicsCutTo25 ==
    SanitizedTopicsRecord =>
        LET n == Len(world.raw.dict["topics"].list)
            topics == ret.dict["topics"]
        IN /\ ~raised
           /\ IsList(topics)
           /\ Len(topics.list) = (IF n < 25 THEN n ELSE 25)
           /\ \A i \in DOMAIN topics.list :
                 IsDict(topics.list[i]) /\ DOMAIN topics.list[i].dict = {"display_name"}

RECURSIVE UrlFree(_)
\* v holds, at no depth, a string containing the provider's entity-URL prefix
\* nor a non-empty list made of such strings only
UrlFree(v) ==
    CASE IsStr(v) -> ~Contains(v.str, OPENALEX_URL)
      [] IsList(v) -> \A i \in DOMAIN v.list : UrlFree(v.list[i])
      [] IsDict(v) -> \A k \in DOMAIN v.dict : UrlFree(v.dict[k])
      [] OTHER -> TRUE

\* C13: the paper sanitizer's output for a work record holds, at any nesting
\* depth, no string containing 'https://openalex.org/' and no list of such
\* strings, concepts entries and lists nested in lists included.
C13_NoProviderUrlLeft ==
    (pc = "sanitized" /\ world.of = "paper" /\ IsDict(world.raw)) => UrlFree(ret)

----------------------------------------------------------------------------
(* Further claims about the journal aggregator, checked under Spec *)

\* the denylist file that the call's mode reads could not be read
DenylistUnreadable ==
    IF call.is_issn THEN world.deny.issn = Unreadable ELSE world.deny.names = Unreadable
\* the same outside, with both denylist files readable and empty
WithEmptyDenylist ==
    [world EXCEPT !.deny = [issn |-> [lines |-> <<>>], names |-> [lines |-> <<>>]]]

\* C16: when the denylist file cannot be read, get_journal_metadata does not
\* answer Hijacked, goes on to the upstream query, and returns what it
\* returns for an identifier that is not on the denylist.
C16_DenylistFailureNotFatal ==
    (JournalCallDone /\ DenylistUnreadable) =>
        /\ ret # HIJACKED_ISSN
        /\ http # <<>>
        /\ http[1].endpoint = "sources"
        /\ ret = get_journal_metadata(call.id, call.is_issn, WithEmptyDenylist).ret
        /\ http = get_journal_metadata(call.id, call.is_issn, WithEmptyDenylist).http
\* with an unreadable denylist the lookup goes through to a journal record
C16_Witness ==
    /\ JournalCallDone
    /\ DenylistUnreadable
    /\ IsDict(ret)
    /\ Len(http) = 3

\* a secondary request was issued and requests.get raised on it: the request
\* for the recent authors, or the request for the retraction sample
SecondaryFetchRaised ==
    \/ /\ \E i \in DOMAIN http : /\ http[i].endpoint = "works"
                                 /\ http[i].per_page = JOURNAL_AUTHORS_MAX_WORKS
       /\ world.authors = ReqFailed
    \/ /\ \E i \in DOMAIN http : /\ http[i].endpoint = "works"
                                 /\ http[i].per_page = RETRACTION_SAMPLE_PER_PAGE
       /\ world.works = ReqFailed

\* C20: an exception after the denylist check, one raised by a secondary
\* fetch included, makes get_journal_metadata return Error; no journal
\* record is returned with enrichment fields left at their defaults.
C20_SecondaryFailureIsError ==
    (JournalCallDone /\ SecondaryFetchRaised) => ret = ERROR_STATE

----------------------------------------------------------------------------
(* Further claims about the paper aggregator, checked under SpecPaper *)

\* C14: in every Found paper record, journal_metadata is null or a journal
\* record, never a sentinel of the nested journal lookup.
C14_JournalMetadataNoSentinel ==
    PaperFound =>
        \/ ret.dict["journal_metadata"] = PNone
        \/ IsDict(ret.dict["journal_metadata"])

\* C15: in every Found paper record, author_count is an integer, the number
\* of entries of author_metadata, and 0 when the work has an empty or
\* missing authorship list.
C15_AuthorCountIsLength ==
    PaperFound =>
        LET author_metadata == ret.dict["author_metadata"]
            author_count == ret.dict["author_count"]
        IN /\ IsInt(author_count)
           /\ IsList(author_metadata) => author_count.int = Len(author_metadata.list)
           /\ ("authorships" \notin DOMAIN AnsweredPaper.dict
                 \/ AnsweredPaper.dict["authorships"] = EmptyList)
                => author_count.int = 0

----------------------------------------------------------------------------
(* Further claims about the two-provider assessment, checked under         *)
(* SpecAssess                                                              *)

\* a provider fetch ended in a fault: requests.get raised, or the body of a
\* 200 response could not be decoded
FetchFaulted(answer) == answer = ReqFailed \/ answer = Ok(BadJson)

\* C17: an Error outcome of either provider fetch is propagated as Error
\* and stays apart from NotFound, which is returned only when a fetch found
\* no matching entity.
C17_ErrorPropagated ==
    (pc = "get_journal_assessment"
        /\ (FetchFaulted(world.openalex) \/ FetchFaulted(world.crossref)))
        => (ret = ERROR_STATE /\ ret # NOT_FOUND)

\* the locations of the answered work that carry a non-null source
SourcedLocations ==
    IF "locations" \in DOMAIN AnsweredPaper.dict /\ IsList(AnsweredPaper.dict["locations"])
    THEN {i \in DOMAIN AnsweredPaper.dict["locations"].list :
            LET loc == AnsweredPaper.dict["locations"].list[i]
            IN "source" \in DOMAIN loc.dict /\ loc.dict["source"] # PNone}
    ELSE {}
\* a Found record of a work that has a location with a source
HasPrimaryLocation == PaperFound /\ SourcedLocations # {}
\* the source of the first such location
PrimarySource ==
    AnsweredPaper.dict["locations"].list[
        CHOOSE i \in SourcedLocations : \A j \in SourcedLocations : i <= j].dict["source"]
HasIssnL(source) ==
    /\ "issn_l" \in DOMAIN source.dict
    /\ IsStr(source.dict["issn_l"])
    /\ source.dict["issn_l"].str # <<>>

\* C18: when the primary location's source carries issn_l, the nested
\* journal lookup is made by ISSN, a source id being present or not; the
\* lookup by source id is made only when issn_l is absent.
C18_IssnPreferred ==
    (HasPrimaryLocation /\ AnsweredPaper.dict["locations_count"] # PInt(0)) =>
        /\ HasIssnL(PrimarySource) =>
              call.calls = << [op |-> "get_journal_metadata",
                               id |-> PrimarySource.dict["issn_l"].str,
                               is_issn |-> TRUE] >>
        /\ (call.calls # <<>> /\ ~call.calls[1].is_issn) => ~HasIssnL(PrimarySource)

\* the first location of the answered work that carries a non-null source
PrimaryLocationOfAnswer ==
    AnsweredPaper.dict["locations"].list[
        CHOOSE i \in SourcedLocations : \A j \in SourcedLocations : i <= j]
FieldOr(d, k) == IF k \in DOMAIN d.dict THEN d.dict[k] ELSE NOT_FOUND

\* C19: publisher, is_in_doaj and open_access of a Found paper record are
\* taken from the first location with a non-null source (is_in_doaj being
\* the source's is_in_doaj), and are the not-found sentinel only when no
\* location carries a source.
C19_FieldsFromPrimaryLocation ==
    PaperFound =>
        IF SourcedLocations # {}
        THEN /\ ret.dict["publisher"] = FieldOr(PrimarySource, "display_name")
             /\ ret.dict["is_in_doaj"] = FieldOr(PrimarySource, "is_in_doaj")
             /\ ret.dict["open_access"] = FieldOr(PrimaryLocationOfAnswer, "is_oa")
        ELSE /\ ret.dict["publisher"] = NOT_FOUND
             /\ ret.dict["is_in_doaj"] = NOT_FOUND
             /\ ret.dict["open_access"] = NOT_FOUND

\* the authorship list of the answered work is one on which the extraction
\* of the author metadata raises: an entry whose author is null
AuthorExtractionRaises ==
    /\ "authorships" \in DOMAIN AnsweredPaper.dict
    /\ IsList(AnsweredPaper.dict["authorships"])
    /\ \E i \in DOMAIN AnsweredPaper.dict["authorships"].list :
          LET entry == AnsweredPaper.dict["authorships"].list[i]
          IN "author" \in DOMAIN entry.dict /\ entry.dict["author"] = PNone

\* C21: when the extraction of the author metadata raises, the paper call
\* returns Error and no paper record; a Found paper record never carries the
\* Error sentinel as author_metadata.
C21_AuthorFailureIsError ==
    /\ PaperFound => ret.dict["author_metadata"] # ERROR_STATE
    /\ ( /\ PaperCallDone
         /\ world.paper \in PaperAnswers
         /\ AuthorExtractionRaises ) => ret = ERROR_STATE

----------------------------------------------------------------------------
(* Claims about the requests of the journal aggregator, checked under Spec *)

\* the positions in the request log of the requests to the works endpoint
WorksRequests == {i \in DOMAIN http : http[i].endpoint = "works"}

\* C22: a get_journal_metadata call whose primary result carries a source id
\* issues exactly one secondary request to the works endpoint, for up to 200
\* works, and computes both the retraction statistics and the recent-author
\* roster from the works that this one request returned.
C22_SingleSecondaryRequest ==
    ( /\ JournalCallDone
      /\ IsDict(ret)
      /\ HasFirstResult
      /\ "id" \in DOMAIN FirstResult.dict ) =>
        /\ Cardinality(WorksRequests) = 1
        /\ \A i \in WorksRequests : http[i].per_page = RETRACTION_SAMPLE_PER_PAGE
        /\ ret.dict["authors_who_pulished_in_this_journal_info"]
              = PList(FlattenAuthors(FetchedSample))

----------------------------------------------------------------------------
(* Claims about the prompts of the two-provider assessment, checked under  *)
(* SpecAssess                                                              *)

\* C23: a prompt-rendering call reads the wall clock once, so the current
\* month and the current year embedded in one prompt are those of one
\* instant, also when the clock passes the turn of the year while the prompt
\* is rendered.
C23_DatesFromOneInstant ==
    (pc = "get_journal_assessment" /\ llm # <<>>) =>
        \E i \in DOMAIN world.clock :
            /\ llm[1].current_month = world.clock[i].month
            /\ llm[1].current_year = world.clock[i].year

----------------------------------------------------------------------------
(* Claims about the requests of the two aggregators, checked under         *)
(* SpecPaper, whose paper calls make the nested journal calls              *)

\* no request of the log was issued twice
NoRequestTwice == \A i, j \in DOMAIN http : http[i] = http[j] => i = j
\* requests.get raised on the request, or its answer carries a non-2xx status
RequestFailed(answer) ==
    IF answer = ReqFailed THEN TRUE ELSE answer.status \notin 200..299

\* C24: no retries. Within one get_journal_metadata or get_paper_metadata_v2
\* call no upstream request is issued twice, and after the primary request
\* of a call has failed, by a non-2xx status or by an exception of the
\* transport, the call issues no further request: the failed works request
\* of a paper call is its only request, and the failed sources request of a
\* journal call, nested or not, is the last request made.
C24_NoRetries ==
    /\ pc \in {"get_journal_metadata", "get_paper_metadata_v2"} => NoRequestTwice
    /\ (PaperCallDone /\ RequestFailed(world.paper)) =>
          (Len(http) = 1 /\ http[1].endpoint = "works")
    /\ (PaperCallDone /\ call.calls # <<>> /\ RequestFailed(world.journal.primary)) =>
          \A i \in DOMAIN http : http[i].endpoint = "sources" => i = Len(http)
    /\ (JournalCallDone /\ RequestFailed(world.primary)) => Len(http) <= 1

\* a paper call whose nested journal lookup met a failed sources request and
\* ended there, after two requests
C24_Witness ==
    /\ PaperFound
    /\ call.calls # <<>>
    /\ RequestFailed(world.journal.primary)
    /\ Len(http) = 2
    /\ http[1].endpoint = "works"
    /\ http[2].endpoint = "sources"
    /\ ret.dict["journal_metadata"] \in {ERROR_STATE, PNone}

\* the items of the Crossref answer that the assessment worked on
CrossrefRawItems == world.crossref.json.dict["message"].dict["items"].list
\* the documented fields of pre_process_journal_crossref_data, up to the
\* letter case of the key
DocumentedFields == {LowerKey(f) : f \in AllowedFields}

\* C25: pre_process_journal_crossref_data keeps, for every item of the
\* Crossref response, each documented field the item carries, the item's DOI
\* and ISSN among them, and drops every key outside the documented list.
C25_DocumentedFieldsKept ==
    (pc = "get_journal_assessment" /\ llm # <<>>) =>
        LET cleaned == llm[1].crossref_metadata.list
        IN /\ Len(cleaned) = Len(CrossrefRawItems)
           /\ \A i \in DOMAIN cleaned :
                /\ \A c \in DOMAIN cleaned[i].dict : LowerKey(c) \in DocumentedFields
                /\ \A k \in DOMAIN CrossrefRawItems[i].dict :
                      LowerKey(k) \in DocumentedFields =>
                          \E c \in DOMAIN cleaned[i].dict :
                              /\ LowerKey(c) = LowerKey(k)
                              /\ cleaned[i].dict[c] = CrossrefRawItems[i].dict[k]

----------------------------------------------------------------------------
(* Claims about the scores of the credibility requesters, checked under    *)
(* Spec                                                                    *)

\* C26: a score returned by get_journal_credibility or get_paper_credibility
\* that is not null (and not the Error pair of a failed request) is an
\* integer in the range 0..100, whatever text the LLM returned.
C26_ScoreInRange ==
    ( /\ pc \in {"get_journal_credibility", "get_paper_credibility"}
      /\ ~raised
      /\ ret # ERROR_PAIR
      /\ ret.tuple[1] # PNone ) =>
        /\ IsInt(ret.tuple[1])
        /\ ret.tuple[1].int \in 0..100

----------------------------------------------------------------------------
(* get_paper_metadata_openalex, api_utils.py:123-140; [ret, http]          *)

get_paper_metadata_openalex(paper_input, input_type, resp) ==
    LET out(v) == [ret |-> v, http |-> <<PaperRequest(paper_input, input_type)>>]
    IN  IF resp = ReqFailed THEN out(ERROR_STATE)
        ELSE IF resp.status # HTTP_OK THEN out(NOT_FOUND)
        ELSE IF resp.json = BadJson \/ ~IsDict(resp.json) THEN out(ERROR_STATE)
        ELSE LET cleaned == pre_processed_research_paper_openalex_metadata(
                                Get(resp.json, "results", EmptyList))
             IN IF cleaned.raise THEN out(ERROR_STATE) ELSE out(cleaned.ret)

----------------------------------------------------------------------------
(* The two Crossref sanitizers of a paper, api_utils.py:311-398, and       *)
(* get_paper_metadata_crossref, api_utils.py:291-309                       *)

\* key_map, lines 378-387 (the same at lines 329-338): the keys taken over
KeyMapKeys ==
    {"reference-count", "abstract", "created", "deposited", "issued", "journal-issue",
     "published", "indexed"}
\* the key under which a key of key_map is stored
KeyMapped(k) ==
    CASE k = "reference-count" -> "reference_count"
      [] k = "journal-issue" -> "journal_issue"
      [] OTHER -> k

\* the characters of a key of key_map
KeyChars(k) ==
    CASE k = "reference-count" -> <<"r", "e", "f", "e", "r", "e", "n", "c", "e", "-", "c", "o", "u", "n", "t">>
      [] k = "abstract" -> <<"a", "b", "s", "t", "r", "a", "c", "t">>
      [] k = "created" -> <<"c", "r", "e", "a", "t", "e", "d">>
      [] k = "deposited" -> <<"d", "e", "p", "o", "s", "i", "t", "e", "d">>
      [] k = "issued" -> <<"i", "s", "s", "u", "e", "d">>
      [] k = "journal-issue" -> <<"j", "o", "u", "r", "n", "a", "l", "-", "i", "s", "s", "u", "e">>
      [] k = "published" -> <<"p", "u", "b", "l", "i", "s", "h", "e", "d">>
      [] k = "indexed" -> <<"i", "n", "d", "e", "x", "e", "d">>

\* `k_api in msg` of lines 394 and 343 is TRUE for some key of key_map:
\* membership in a dict, equality with an element of a list, containment in a
\* string
CarriesMappedKey(msg) ==
    \E k \in KeyMapKeys :
        CASE IsDict(msg) -> k \in DOMAIN msg.dict
          [] IsList(msg) -> \E i \in DOMAIN msg.list : msg.list[i] = PStr(KeyChars(k))
          [] IsStr(msg) -> Contains(msg.str, KeyChars(k))
          [] OTHER -> FALSE

\* lines 389-396 (the same at lines 342-345): the fields of key_map that the
\* work carries; `in` raises on a work that is no container, and indexing by
\* a key raises on a list or a string
CleanedByKeyMap(msg) ==
    IF IsDict(msg)
    THEN LET kept == DOMAIN msg.dict \cap KeyMapKeys
         IN [raise |-> FALSE,
             ret |-> PDict([k \in {KeyMapped(a) : a \in kept} |->
                              msg.dict[CHOOSE a \in kept : KeyMapped(a) = k]])]
    ELSE IF (IsList(msg) \/ IsStr(msg)) /\ ~CarriesMappedKey(msg)
    THEN [raise |-> FALSE, ret |-> EmptyDict]
    ELSE [raise |-> TRUE, ret |-> PNone]

\* lines 359-398
pre_processed_research_paper_crossref_doi_metadata(crossref_data) ==
    IF IsDict(crossref_data) /\ "message" \in DOMAIN crossref_data.dict
    THEN CleanedByKeyMap(crossref_data.dict["message"])
    ELSE CleanedByKeyMap(crossref_data)

\* lines 311-357
pre_processed_research_paper_crossref_title_metadata(crossref_data) ==
    LET got == CrossrefItems(crossref_data)
    IN  IF got.raise THEN [raise |-> TRUE, ret |-> PNone]
        ELSE IF Truthy(got.items) /\ IsList(got.items)
        THEN CleanedByKeyMap(got.items.list[1])
        ELSE [raise |-> FALSE, ret |-> EmptyDict]

\* lines 292-295: the request made for the input type
CrossrefPaperRequest(paper_input, input_type) ==
    IF input_type = DOI_TYPE
    THEN Request("crossref/v1/works", "doi", paper_input, 0)
    ELSE Request("crossref/v1/works", "query.title", ReplaceSpaces(paper_input), 0)

\* [ret, http]
get_paper_metadata_crossref(paper_input, input_type, resp) ==
    LET out(v) == [ret |-> v, http |-> <<CrossrefPaperRequest(paper_input, input_type)>>]
    IN  IF resp = ReqFailed THEN out(ERROR_STATE)
        ELSE IF resp.status # HTTP_OK THEN out(NOT_FOUND)
        ELSE IF resp.json = BadJson THEN out(ERROR_STATE)
        ELSE LET cleaned ==
                    IF input_type = DOI_TYPE
                    THEN pre_processed_research_paper_crossref_doi_metadata(resp.json)
                    ELSE pre_processed_research_paper_crossref_title_metadata(resp.json)
             IN IF cleaned.raise THEN out(ERROR_STATE) ELSE out(cleaned.ret)

----------------------------------------------------------------------------
(* get_research_paper_credibility_prompt, api_utils.py:638-739,            *)
(* get_research_paper_credibility_from_llm, api_utils.py:617-636, and      *)
(* get_research_paper_assessment, api_utils.py:594-614; [ret, http, llm]   *)

\* lines 644-646 and the metadata embedded at lines 732-734
get_research_paper_credibility_prompt(openalex_metadata, crossref_metadata, clock) ==
    [fn |-> "get_research_paper_credibility_prompt",
     current_month |-> clock[1].month,
     current_year |-> clock[2].year,
     openalex_metadata |-> openalex_metadata,
     crossref_metadata |-> crossref_metadata]

\* [ret, llm]
get_research_paper_credibility_from_llm(openalex_metadata, crossref_metadata, clock, reply) ==
    [ret |-> IF reply = LlmFailed THEN ERROR_STATE ELSE PStr(Strip(reply.text)),
     llm |-> <<get_research_paper_credibility_prompt(openalex_metadata, crossref_metadata,
                                                     clock)>>]

\* lines 600-614, given what the two fetches of lines 598-599 yielded
PaperAssessed(openalex, crossref, clock, reply) ==
    IF AssessmentUnavailable(openalex.ret, crossref.ret)
    THEN [ret |-> NOT_FOUND, http |-> openalex.http \o crossref.http, llm |-> <<>>]
    ELSE [ret |-> get_research_paper_credibility_from_llm(openalex.ret, crossref.ret,
                                                          clock, reply).ret,
          http |-> openalex.http \o crossref.http,
          llm |-> get_research_paper_credibility_from_llm(openalex.ret, crossref.ret,
                                                          clock, reply).llm]

get_research_paper_assessment(paper_input, input_type, w) ==
    PaperAssessed(get_paper_metadata_openalex(paper_input, input_type, w.openalex),
                  get_paper_metadata_crossref(paper_input, input_type, w.crossref),
                  w.clock, w.reply)

----------------------------------------------------------------------------
(* The worlds of the paper assessment *)

AssessedWork ==
    PDict([title |-> PStr(<<"t">>), id |-> SOURCE_ID, cited_by_count |-> PInt(5)])
PaperOpenAlexAnswers ==
    { ReqFailed, Status(404), Ok(BadJson), Ok(EmptyDict),
      Ok(PDict([results |-> EmptyList])),
      Ok(PDict([results |-> PList(<<AssessedWork>>)])) }

CrossrefWork ==
    PDict([DOI |-> PStr(<<"1", "0", ".", "1">>), abstract |-> PStr(<<"x">>),
           indexed |-> PDict([timestamp |-> PInt(1)])])
PaperCrossrefAnswers ==
    { ReqFailed, Status(404), Ok(BadJson),
      Ok(PDict([message |-> PNone])),
      Ok(PDict([message |-> PDict([items |-> EmptyList])])),
      Ok(PDict([message |-> PDict([items |-> PList(<<CrossrefWork>>)])])),
      Ok(PDict([message |-> CrossrefWork])) }

PaperAssessWorlds ==
    { [kind |-> "paper assess", openalex |-> o, crossref |-> c, reply |-> r, clock |-> k] :
        o \in PaperOpenAlexAnswers, c \in PaperCrossrefAnswers,
        r \in AssessReplies, k \in Clocks }

CallGetResearchPaperAssessment ==
    /\ pc = "ready"
    /\ world.kind = "paper assess"
    /\ \E paper_input \in PaperInputs, input_type \in InputTypes :
          \E r \in {get_research_paper_assessment(paper_input, input_type, world)} :
             /\ call' = [op |-> "get_research_paper_assessment",
                         paper_input |-> paper_input, input_type |-> input_type]
             /\ ret' = r.ret
             /\ http' = r.http
             /\ llm' = r.llm
    /\ pc' = "get_research_paper_assessment"
    /\ UNCHANGED <<world, raised>>

InitAssess == InitWith(AssessWorlds \cup PaperAssessWorlds)
NextAssess == CallGetJournalAssessment \/ CallGetResearchPaperAssessment
SpecAssess == InitAssess /\ [][NextAssess]_vars

----------------------------------------------------------------------------
(* Claims about the steps of the two assessments, checked under SpecAssess *)

AssessDone == pc \in {"get_journal_assessment", "get_research_paper_assessment"}

\* what the OpenAlex fetch and the Crossref fetch of the call returned
OpenAlexFetched ==
    IF pc = "get_journal_assessment"
    THEN get_journal_metadata_openalex(call.id, call.is_issn, world.openalex).ret
    ELSE get_paper_metadata_openalex(call.paper_input, call.input_type, world.openalex).ret
CrossrefFetched ==
    IF pc = "get_journal_assessment"
    THEN get_journal_metadata_crossref(call.id, PBool(call.is_issn), world.crossref).ret
    ELSE get_paper_metadata_crossref(call.paper_input, call.input_type, world.crossref).ret

\* a fetch result that is NotFound, Error, null or empty
Unusable(v) ==
    \/ v \in {NOT_FOUND, ERROR_STATE, PNone}
    \/ IsList(v) /\ v.list = <<>>
    \/ IsDict(v) /\ DOMAIN v.dict = {}
    \/ IsStr(v) /\ v.str = <<>>

\* C27: in get_journal_assessment and get_research_paper_assessment both
\* provider fetches are made, OpenAlex then Crossref, before any LLM call;
\* the LLM is called at most once, with a prompt made of what the two
\* fetches returned, and only if neither fetch returned NotFound, Error,
\* null or an empty result; otherwise the call returns without an LLM call.
C27_FetchesThenOneLlmCall ==
    AssessDone =>
        /\ Len(http) = 2
        /\ http[1].endpoint \in {"sources", "works"}
        /\ http[2].endpoint \in {"crossref/works", "crossref/v1/works"}
        /\ Len(llm) <= 1
        /\ llm # <<>> => /\ ~Unusable(OpenAlexFetched)
                         /\ ~Unusable(CrossrefFetched)
                         /\ llm[1].openalex_metadata = OpenAlexFetched
                         /\ llm[1].crossref_metadata = CrossrefFetched
        /\ (Unusable(OpenAlexFetched) \/ Unusable(CrossrefFetched)) =>
              (llm = <<>> /\ ret = NOT_FOUND)

\* a paper assessment that called the LLM once, after both fetches had
\* returned a record
C27_Witness ==
    /\ pc = "get_research_paper_assessment"
    /\ Len(http) = 2
    /\ Len(llm) = 1
    /\ IsList(llm[1].openalex_metadata)
    /\ IsDict(llm[1].crossref_metadata)
    /\ llm[1].crossref_metadata # EmptyDict
    /\ world.reply # LlmFailed
    /\ ret = PStr(Strip(world.reply.text))

\* the requests of the log that went to Crossref
CrossrefRequests ==
    {i \in DOMAIN http : http[i].endpoint \in {"crossref/works", "crossref/v1/works"}}

\* C28: get_journal_assessment called with is_issn true makes its Crossref
\* fetch with the ISSN-filter query (filter=issn:<id>); the title-search
\* query is used only when is_issn is false.
C28_CrossrefQueryByMode ==
    pc = "get_journal_assessment" =>
        /\ CrossrefRequests # {}
        /\ \A i \in CrossrefRequests :
              IF call.is_issn
              THEN http[i].by = "filter=issn" /\ http[i].value = call.id
              ELSE http[i].by = "query.title"

----------------------------------------------------------------------------
(* Claims about the fields of the journal record, checked under Spec *)

\* C29: in every journal record returned by get_journal_metadata the
\* publisher field equals the title field, both being the display_name of
\* the first result (the not-found sentinel without one), whatever host
\* organization the upstream record names.
C29_PublisherIsTitle ==
    (JournalCallDone /\ IsDict(ret)) =>
        /\ ret.dict["publisher"] = ret.dict["title"]
        /\ ret.dict["title"] = FieldOr(FirstResult, "display_name")

\* a record whose source names a host organization other than its title
C29_Witness ==
    /\ JournalCallDone
    /\ IsDict(ret)
    /\ "display_name" \in DOMAIN FirstResult.dict
    /\ "host_organization_name" \in DOMAIN FirstResult.dict
    /\ FirstResult.dict["host_organization_name"] # FirstResult.dict["display_name"]
    /\ ret.dict["host_organization_name"] = FirstResult.dict["host_organization_name"]
    /\ ret.dict["publisher"] = FirstResult.dict["display_name"]

----------------------------------------------------------------------------
(* Claims about the journal lookup nested in a paper call, checked under   *)
(* SpecPaper                                                               *)

\* the primary location's source carries a source id and no issn_l
SourceIdWithoutIssn ==
    /\ HasPrimaryLocation
    /\ AnsweredPaper.dict["locations_count"] # PInt(0)
    /\ "id" \in DOMAIN PrimarySource.dict
    /\ IsStr(PrimarySource.dict["id"])
    /\ PrimarySource.dict["id"].str # <<>>
    /\ ~HasIssnL(PrimarySource)

\* the sources request of the nested lookup was answered with a top result
\* that carries a display title
NestedTopResultTitled ==
    /\ world.journal.primary # ReqFailed
    /\ world.journal.primary.status = HTTP_OK
    /\ IsDict(world.journal.primary.json)
    /\ "results" \in DOMAIN world.journal.primary.json.dict
    /\ world.journal.primary.json.dict["results"].list # <<>>
    /\ "display_name" \in DOMAIN world.journal.primary.json.dict["results"].list[1].dict
NestedTopTitle == world.journal.primary.json.dict["results"].list[1].dict["display_name"]

\* C30: when the primary location's source has a source id and no issn_l,
\* the nested journal lookup is the free-text name lookup of the source-id
\* string; journal_metadata is then a journal record only if the top search
\* result's display title is that string up to letter case, and in every
\* other case it is not a journal record.
C30_SourceIdNameLookup ==
    SourceIdWithoutIssn =>
        /\ call.calls = << [op |-> "get_journal_metadata",
                            id |-> PrimarySource.dict["id"].str,
                            is_issn |-> FALSE] >>
        /\ IsDict(ret.dict["journal_metadata"]) =>
              /\ NestedTopResultTitled
              /\ Lower(NestedTopTitle.str) = Lower(PrimarySource.dict["id"].str)
              /\ ret.dict["journal_metadata"].dict["title"] = NestedTopTitle
        /\ ( \/ ~NestedTopResultTitled
             \/ Lower(NestedTopTitle.str) # Lower(PrimarySource.dict["id"].str) ) =>
              ~IsDict(ret.dict["journal_metadata"])

\* a source id that is the top result's title in another letter case, looked
\* up by name and answered with the journal record
C30_Witness ==
    /\ SourceIdWithoutIssn
    /\ NestedTopResultTitled
    /\ PrimarySource.dict["id"] # NestedTopTitle
    /\ ~call.calls[1].is_issn
    /\ IsDict(ret.dict["journal_metadata"])
    /\ ret.dict["journal_metadata"].dict["title"] = NestedTopTitle

====
